---------------------------- MODULE Spec2Model ----------------------------
(***************************************************************************)
(* Query understanding and data resolution of the INGRES groundwater       *)
(* chatbot (src/query_processor.py, class QueryProcessor).                 *)
(*                                                                         *)
(* Text is a sequence of one-character strings, so that lower-casing,      *)
(* substring tests, word splitting and regular-expression search are       *)
(* computed character by character, as Python computes them.               *)
(***************************************************************************)
EXTENDS Integers, Sequences, FiniteSets, TLC

VARIABLES
    store,      \* the sqlite database behind db_path: schema and rows
    storeUp,    \* whether the database file can be opened and read
    hashSeed,   \* the string hash seed of the interpreter process
    pc,         \* position of the running call
    call,       \* the method the caller invoked
    query,      \* the query text
    intent,     \* the classified intent
    locations,  \* _extract_locations' result
    entities,   \* the entities map
    catConn,    \* the connection of _extract_locations (line 116)
    resConn,    \* the connection of _get_response_data (line 181)
    pending,    \* what the try block of _get_response_data produced
    outcome,    \* what the call gave its caller: a value or an exception
    trace,      \* the store-related steps the running call has made
    parked      \* the calls of the request threads that are not running

vars == << store, storeUp, hashSeed, pc, call, query, intent, locations, entities,
           catConn, resConn, pending, outcome, trace, parked >>

-----------------------------------------------------------------------------
(* Bounds of the model.                                                    *)

\* a query text is made of at most MaxTokens vocabulary tokens
MaxTokens == 2

\* the assessment table holds at most MaxAssessments rows
MaxAssessments == 3

\* the populated database holds at most MaxBlocks blocks
MaxBlocks == 40

\* the hash seeds of a process are 0 .. MaxHashSeed
MaxHashSeed == 1

\* at most MaxThreads request threads call the processor at a time
MaxThreads == 2

-----------------------------------------------------------------------------
(* Characters and strings (Python str).                                    *)

UpperCase == << "A","B","C","D","E","F","G","H","I","J","K","L","M",
                "N","O","P","Q","R","S","T","U","V","W","X","Y","Z" >>
LowerCase == << "a","b","c","d","e","f","g","h","i","j","k","l","m",
                "n","o","p","q","r","s","t","u","v","w","x","y","z" >>
DigitChars == << "0","1","2","3","4","5","6","7","8","9" >>

Range(f) == { f[i] : i \in DOMAIN f }

IsUpper(c) == c \in Range(UpperCase)
IsLower(c) == c \in Range(LowerCase)
\* \d
IsDigit(c) == c \in Range(DigitChars)
\* \w
IsWordChar(c) == IsUpper(c) \/ IsLower(c) \/ IsDigit(c) \/ c = "_"
\* \s, and the separators of str.split()
IsSpace(c) == c \in { " ", "\t", "\n", "\r", "\f" }

IndexIn(c, alphabet) == CHOOSE i \in DOMAIN alphabet : alphabet[i] = c

lower_char(c) == IF IsUpper(c) THEN LowerCase[IndexIn(c, UpperCase)] ELSE c
upper_char(c) == IF IsLower(c) THEN UpperCase[IndexIn(c, LowerCase)] ELSE c

\* str.lower()
lower(s) == [ i \in 1..Len(s) |-> lower_char(s[i]) ]

\* str.title(): a cased character is upper-cased when it follows an uncased
\* one (or starts the string) and lower-cased otherwise
title(s) ==
    [ i \in 1..Len(s) |->
        IF i > 1 /\ (IsUpper(s[i-1]) \/ IsLower(s[i-1])) THEN lower_char(s[i]) ELSE upper_char(s[i]) ]

\* s[i:i+n] == sub
MatchAt(s, i, sub) ==
    /\ i + Len(sub) <= Len(s)
    /\ \A k \in 1..Len(sub) : s[i + k] = sub[k]

\* sub in s
Contains(s, sub) == \E i \in 0..Len(s) : MatchAt(s, i, sub)

\* s.startswith(prefix)
StartsWith(s, prefix) == MatchAt(s, 0, prefix)

\* str.split(): the maximal runs of non-space characters, in order
RECURSIVE SplitFrom(_, _, _)
SplitFrom(s, i, word) ==
    IF i > Len(s)
    THEN IF word = << >> THEN << >> ELSE << word >>
    ELSE IF IsSpace(s[i])
         THEN (IF word = << >> THEN << >> ELSE << word >>) \o SplitFrom(s, i + 1, << >>)
         ELSE SplitFrom(s, i + 1, Append(word, s[i]))

split(s) == SplitFrom(s, 1, << >>)

-----------------------------------------------------------------------------
(* Regular expressions (module re).  A pattern is a sequence of nodes; a   *)
(* node is a literal, an alternation of patterns, .* , \s+ , \w+ or \d{n}. *)
(* Groups only capture, and no capture is read by the program, so they are *)
(* not represented.                                                        *)

Lit(chars) == << "lit", chars >>
Alt(branches) == << "alt", branches >>
DotStar == << "dotstar" >>
SpacePlus == << "space+" >>
WordPlus == << "word+" >>
Digits(n) == << "digits", n >>

\* c is in the character class: . (without DOTALL), \s, \w or \d
InClass(c, class) ==
    CASE class = "." -> c # "\n"
      [] class = "s" -> IsSpace(c)
      [] class = "w" -> IsWordChar(c)
      [] class = "d" -> IsDigit(c)

\* every character of s[i:j] is in the class
AllIn(s, i, j, class) == \A k \in (i + 1)..j : InClass(s[k], class)

RECURSIVE RunFrom(_, _, _)
RECURSIVE StepFrom(_, _, _)

\* the positions where a match of node can end when it starts at one of from
StepFrom(node, s, from) ==
    CASE node[1] = "lit" ->
           { i + Len(node[2]) : i \in { i \in from : MatchAt(s, i, node[2]) } }
      [] node[1] = "alt" ->
           UNION { RunFrom(node[2][b], s, from) : b \in DOMAIN node[2] }
      [] node[1] = "dotstar" ->
           { j \in 0..Len(s) : \E i \in from : i <= j /\ AllIn(s, i, j, ".") }
      [] node[1] = "space+" ->
           { j \in 0..Len(s) : \E i \in from : i < j /\ AllIn(s, i, j, "s") }
      [] node[1] = "word+" ->
           { j \in 0..Len(s) : \E i \in from : i < j /\ AllIn(s, i, j, "w") }
      [] node[1] = "digits" ->
           { i + node[2] : i \in { i \in from : i + node[2] <= Len(s)
                                               /\ AllIn(s, i, i + node[2], "d") } }

\* the positions where a match of pattern can end when it starts at one of from
RunFrom(pattern, s, from) ==
    IF Len(pattern) = 0 \/ from = {}
    THEN from
    ELSE RunFrom(Tail(pattern), s, StepFrom(Head(pattern), s, from))

\* re.search(pattern, s) is not None
search(pattern, s) == RunFrom(pattern, s, 0..Len(s)) # {}

-----------------------------------------------------------------------------
(* The pattern table, _initialize_patterns (lines 18-65).                  *)

\* line 22: r'(what|show|tell).*(groundwater|water).*status.*(of|in|for)\s+(\w+)'
Pat_groundwater_status_1 ==
    << Alt(<<<<Lit(<<"w","h","a","t">>)>>, <<Lit(<<"s","h","o","w">>)>>, <<Lit(<<"t","e","l","l">>)>>>>),
       DotStar,
       Alt(<<<<Lit(<<"g","r","o","u","n","d","w","a","t","e","r">>)>>, <<Lit(<<"w","a","t","e","r">>)>>>>),
       DotStar,
       Lit(<<"s","t","a","t","u","s">>),
       DotStar,
       Alt(<<<<Lit(<<"o","f">>)>>, <<Lit(<<"i","n">>)>>, <<Lit(<<"f","o","r">>)>>>>),
       SpacePlus,
       WordPlus >>

\* line 23: r'status.*(of|in|for)\s+(\w+)'
Pat_groundwater_status_2 ==
    << Lit(<<"s","t","a","t","u","s">>),
       DotStar,
       Alt(<<<<Lit(<<"o","f">>)>>, <<Lit(<<"i","n">>)>>, <<Lit(<<"f","o","r">>)>>>>),
       SpacePlus,
       WordPlus >>

\* line 24: r'groundwater.*(\w+)\s+(district|block|state)'
Pat_groundwater_status_3 ==
    << Lit(<<"g","r","o","u","n","d","w","a","t","e","r">>),
       DotStar,
       WordPlus,
       SpacePlus,
       Alt(<<<<Lit(<<"d","i","s","t","r","i","c","t">>)>>, <<Lit(<<"b","l","o","c","k">>)>>, <<Lit(<<"s","t","a","t","e">>)>>>>) >>

\* line 27: r'(show|list|which).*(critical|over-exploited|danger)'
Pat_critical_areas_1 ==
    << Alt(<<<<Lit(<<"s","h","o","w">>)>>, <<Lit(<<"l","i","s","t">>)>>, <<Lit(<<"w","h","i","c","h">>)>>>>),
       DotStar,
       Alt(<<<<Lit(<<"c","r","i","t","i","c","a","l">>)>>, <<Lit(<<"o","v","e","r","-","e","x","p","l","o","i","t","e","d">>)>>, <<Lit(<<"d","a","n","g","e","r">>)>>>>) >>

\* line 28: r'areas.*(critical|over-exploited|danger)'
Pat_critical_areas_2 ==
    << Lit(<<"a","r","e","a","s">>),
       DotStar,
       Alt(<<<<Lit(<<"c","r","i","t","i","c","a","l">>)>>, <<Lit(<<"o","v","e","r","-","e","x","p","l","o","i","t","e","d">>)>>, <<Lit(<<"d","a","n","g","e","r">>)>>>>) >>

\* line 29: r'(critical|over-exploited).*(areas|blocks|districts)'
Pat_critical_areas_3 ==
    << Alt(<<<<Lit(<<"c","r","i","t","i","c","a","l">>)>>, <<Lit(<<"o","v","e","r","-","e","x","p","l","o","i","t","e","d">>)>>>>),
       DotStar,
       Alt(<<<<Lit(<<"a","r","e","a","s">>)>>, <<Lit(<<"b","l","o","c","k","s">>)>>, <<Lit(<<"d","i","s","t","r","i","c","t","s">>)>>>>) >>

\* line 32: r'(show|list|which).*(safe|good).*areas'
Pat_safe_areas_1 ==
    << Alt(<<<<Lit(<<"s","h","o","w">>)>>, <<Lit(<<"l","i","s","t">>)>>, <<Lit(<<"w","h","i","c","h">>)>>>>),
       DotStar,
       Alt(<<<<Lit(<<"s","a","f","e">>)>>, <<Lit(<<"g","o","o","d">>)>>>>),
       DotStar,
       Lit(<<"a","r","e","a","s">>) >>

\* line 33: r'areas.*safe'
Pat_safe_areas_2 ==
    << Lit(<<"a","r","e","a","s">>),
       DotStar,
       Lit(<<"s","a","f","e">>) >>

\* line 34: r'safe.*(areas|blocks|districts)'
Pat_safe_areas_3 ==
    << Lit(<<"s","a","f","e">>),
       DotStar,
       Alt(<<<<Lit(<<"a","r","e","a","s">>)>>, <<Lit(<<"b","l","o","c","k","s">>)>>, <<Lit(<<"d","i","s","t","r","i","c","t","s">>)>>>>) >>

\* line 37: r'water level.*(of|in|for)\s+(\w+)'
Pat_water_level_1 ==
    << Lit(<<"w","a","t","e","r"," ","l","e","v","e","l">>),
       DotStar,
       Alt(<<<<Lit(<<"o","f">>)>>, <<Lit(<<"i","n">>)>>, <<Lit(<<"f","o","r">>)>>>>),
       SpacePlus,
       WordPlus >>

\* line 38: r'(depth|level).*water.*(of|in|for)\s+(\w+)'
Pat_water_level_2 ==
    << Alt(<<<<Lit(<<"d","e","p","t","h">>)>>, <<Lit(<<"l","e","v","e","l">>)>>>>),
       DotStar,
       Lit(<<"w","a","t","e","r">>),
       DotStar,
       Alt(<<<<Lit(<<"o","f">>)>>, <<Lit(<<"i","n">>)>>, <<Lit(<<"f","o","r">>)>>>>),
       SpacePlus,
       WordPlus >>

\* line 39: r'how deep.*water.*(in|at)\s+(\w+)'
Pat_water_level_3 ==
    << Lit(<<"h","o","w"," ","d","e","e","p">>),
       DotStar,
       Lit(<<"w","a","t","e","r">>),
       DotStar,
       Alt(<<<<Lit(<<"i","n">>)>>, <<Lit(<<"a","t">>)>>>>),
       SpacePlus,
       WordPlus >>

\* line 42: r'(historical|history|trend|past).*(data|information|records)'
Pat_historical_1 ==
    << Alt(<<<<Lit(<<"h","i","s","t","o","r","i","c","a","l">>)>>, <<Lit(<<"h","i","s","t","o","r","y">>)>>, <<Lit(<<"t","r","e","n","d">>)>>, <<Lit(<<"p","a","s","t">>)>>>>),
       DotStar,
       Alt(<<<<Lit(<<"d","a","t","a">>)>>, <<Lit(<<"i","n","f","o","r","m","a","t","i","o","n">>)>>, <<Lit(<<"r","e","c","o","r","d","s">>)>>>>) >>

\* line 43: r'(show|get).*(trend|historical)'
Pat_historical_2 ==
    << Alt(<<<<Lit(<<"s","h","o","w">>)>>, <<Lit(<<"g","e","t">>)>>>>),
       DotStar,
       Alt(<<<<Lit(<<"t","r","e","n","d">>)>>, <<Lit(<<"h","i","s","t","o","r","i","c","a","l">>)>>>>) >>

\* line 44: r'data.*(from|between)\s+(\d{4})'
Pat_historical_3 ==
    << Lit(<<"d","a","t","a">>),
       DotStar,
       Alt(<<<<Lit(<<"f","r","o","m">>)>>, <<Lit(<<"b","e","t","w","e","e","n">>)>>>>),
       SpacePlus,
       Digits(4) >>

\* line 47: r'(recharge|replenishment).*(rate|data|information)'
Pat_recharge_1 ==
    << Alt(<<<<Lit(<<"r","e","c","h","a","r","g","e">>)>>, <<Lit(<<"r","e","p","l","e","n","i","s","h","m","e","n","t">>)>>>>),
       DotStar,
       Alt(<<<<Lit(<<"r","a","t","e">>)>>, <<Lit(<<"d","a","t","a">>)>>, <<Lit(<<"i","n","f","o","r","m","a","t","i","o","n">>)>>>>) >>

\* line 48: r'annual.*recharge'
Pat_recharge_2 ==
    << Lit(<<"a","n","n","u","a","l">>),
       DotStar,
       Lit(<<"r","e","c","h","a","r","g","e">>) >>

\* line 49: r'groundwater.*recharge'
Pat_recharge_3 ==
    << Lit(<<"g","r","o","u","n","d","w","a","t","e","r">>),
       DotStar,
       Lit(<<"r","e","c","h","a","r","g","e">>) >>

\* line 52: r'(extraction|withdrawal|usage).*(rate|data|information)'
Pat_extraction_1 ==
    << Alt(<<<<Lit(<<"e","x","t","r","a","c","t","i","o","n">>)>>, <<Lit(<<"w","i","t","h","d","r","a","w","a","l">>)>>, <<Lit(<<"u","s","a","g","e">>)>>>>),
       DotStar,
       Alt(<<<<Lit(<<"r","a","t","e">>)>>, <<Lit(<<"d","a","t","a">>)>>, <<Lit(<<"i","n","f","o","r","m","a","t","i","o","n">>)>>>>) >>

\* line 53: r'how much.*extract'
Pat_extraction_2 ==
    << Lit(<<"h","o","w"," ","m","u","c","h">>),
       DotStar,
       Lit(<<"e","x","t","r","a","c","t">>) >>

\* line 54: r'groundwater.*(extraction|usage)'
Pat_extraction_3 ==
    << Lit(<<"g","r","o","u","n","d","w","a","t","e","r">>),
       DotStar,
       Alt(<<<<Lit(<<"e","x","t","r","a","c","t","i","o","n">>)>>, <<Lit(<<"u","s","a","g","e">>)>>>>) >>

\* line 57: r'compare.*(between|with)'
Pat_comparison_1 ==
    << Lit(<<"c","o","m","p","a","r","e">>),
       DotStar,
       Alt(<<<<Lit(<<"b","e","t","w","e","e","n">>)>>, <<Lit(<<"w","i","t","h">>)>>>>) >>

\* line 58: r'difference.*between'
Pat_comparison_2 ==
    << Lit(<<"d","i","f","f","e","r","e","n","c","e">>),
       DotStar,
       Lit(<<"b","e","t","w","e","e","n">>) >>

\* line 59: r'(better|worse).*than'
Pat_comparison_3 ==
    << Alt(<<<<Lit(<<"b","e","t","t","e","r">>)>>, <<Lit(<<"w","o","r","s","e">>)>>>>),
       DotStar,
       Lit(<<"t","h","a","n">>) >>

\* line 62: r'(help|what can you do|features|capabilities)'
Pat_help_1 ==
    << Alt(<<<<Lit(<<"h","e","l","p">>)>>, <<Lit(<<"w","h","a","t"," ","c","a","n"," ","y","o","u"," ","d","o">>)>>, <<Lit(<<"f","e","a","t","u","r","e","s">>)>>, <<Lit(<<"c","a","p","a","b","i","l","i","t","i","e","s">>)>>>>) >>

\* line 63: r'how.*(to use|does.*work)'
Pat_help_2 ==
    << Lit(<<"h","o","w">>),
       DotStar,
       Alt(<<<<Lit(<<"t","o"," ","u","s","e">>)>>, <<Lit(<<"d","o","e","s">>), DotStar, Lit(<<"w","o","r","k">>)>>>>) >>

\* the dict of line 20 with the 'safe_areas' entry written before the
\* 'critical_areas' entry
intent_patterns_safe_first ==
  <<
    [intent |-> "groundwater_status", patterns |-> << Pat_groundwater_status_1, Pat_groundwater_status_2, Pat_groundwater_status_3 >>],
    [intent |-> "safe_areas", patterns |-> << Pat_safe_areas_1, Pat_safe_areas_2, Pat_safe_areas_3 >>],
    [intent |-> "critical_areas", patterns |-> << Pat_critical_areas_1, Pat_critical_areas_2, Pat_critical_areas_3 >>],
    [intent |-> "water_level", patterns |-> << Pat_water_level_1, Pat_water_level_2, Pat_water_level_3 >>],
    [intent |-> "historical", patterns |-> << Pat_historical_1, Pat_historical_2, Pat_historical_3 >>],
    [intent |-> "recharge", patterns |-> << Pat_recharge_1, Pat_recharge_2, Pat_recharge_3 >>],
    [intent |-> "extraction", patterns |-> << Pat_extraction_1, Pat_extraction_2, Pat_extraction_3 >>],
    [intent |-> "comparison", patterns |-> << Pat_comparison_1, Pat_comparison_2, Pat_comparison_3 >>],
    [intent |-> "help", patterns |-> << Pat_help_1, Pat_help_2 >>]
  >>

\* the dict of line 20, in insertion order (the order dict.items() yields)
intent_patterns ==
  <<
    [intent |-> "groundwater_status", patterns |-> << Pat_groundwater_status_1, Pat_groundwater_status_2, Pat_groundwater_status_3 >>],
    [intent |-> "critical_areas", patterns |-> << Pat_critical_areas_1, Pat_critical_areas_2, Pat_critical_areas_3 >>],
    [intent |-> "safe_areas", patterns |-> << Pat_safe_areas_1, Pat_safe_areas_2, Pat_safe_areas_3 >>],
    [intent |-> "water_level", patterns |-> << Pat_water_level_1, Pat_water_level_2, Pat_water_level_3 >>],
    [intent |-> "historical", patterns |-> << Pat_historical_1, Pat_historical_2, Pat_historical_3 >>],
    [intent |-> "recharge", patterns |-> << Pat_recharge_1, Pat_recharge_2, Pat_recharge_3 >>],
    [intent |-> "extraction", patterns |-> << Pat_extraction_1, Pat_extraction_2, Pat_extraction_3 >>],
    [intent |-> "comparison", patterns |-> << Pat_comparison_1, Pat_comparison_2, Pat_comparison_3 >>],
    [intent |-> "help", patterns |-> << Pat_help_1, Pat_help_2 >>]
  >>

-----------------------------------------------------------------------------
(* classify_intent (lines 67-80): the intent.                              *)

\* for pattern, _ in patterns: if re.search(pattern, query_lower)
any_pattern_matches(patterns, text) ==
    \E p \in DOMAIN patterns : search(patterns[p], text)

\* classify_from without the return of line 77 inside the loop: a later
\* matching entry overwrites an earlier one
RECURSIVE classify_from_last_match(_, _)
classify_from_last_match(k, text) ==
    IF k > Len(intent_patterns)
    THEN "general"
    ELSE LET later == classify_from_last_match(k + 1, text)
         IN  IF later # "general" THEN later
             ELSE IF any_pattern_matches(intent_patterns[k].patterns, text)
                  THEN intent_patterns[k].intent
                  ELSE "general"

\* the loop of line 72 from the k-th entry on, and the default of line 80
RECURSIVE classify_from(_, _)
classify_from(k, text) ==
    IF k > Len(intent_patterns)
    THEN "general"
    ELSE IF any_pattern_matches(intent_patterns[k].patterns, text)
         THEN intent_patterns[k].intent
         ELSE classify_from(k + 1, text)

\* the intent classify_intent returns for query
classified_intent(q) == classify_from(1, lower(q))

-----------------------------------------------------------------------------
(* Query texts.                                                            *)

Vocabulary ==
    {  <<"s","h","o","w">>,
       <<"C","r","i","t","i","c","a","l"," ","a","r","e","a","s">>,
       <<"s","a","f","e">>,
       <<"a","r","e","a","s">>,
       <<"s","t","a","t","u","s"," ","o","f">>,
       <<"w","a","t","e","r"," ","l","e","v","e","l"," ","i","n">>,
       <<"t","r","e","n","d">>,
       <<"g","r","o","u","n","d","w","a","t","e","r">>,
       <<"r","e","c","h","a","r","g","e">>,
       <<"u","s","a","g","e">>,
       <<"d","i","f","f","e","r","e","n","c","e"," ","b","e","t","w","e","e","n">>,
       <<"h","e","l","p">>,
       <<"P","u","n","j","a","b">>,
       <<"2","0","2","4">>,
       <<"2","0","2","3">>,
       <<"s","e","m","i">>,
       <<"o","v","e","r","-","e","x","p","l","o","i","t","e","d">>  }

\* tokens are written next to each other or with a blank between them
Separators == { << >>, << " " >> }

RECURSIVE TextsOfLength(_)
TextsOfLength(n) ==
    IF n = 0 THEN { << >> }
    ELSE IF n = 1 THEN Vocabulary
    ELSE { t \o sep \o w : t \in TextsOfLength(n - 1), sep \in Separators, w \in Vocabulary }

Texts == UNION { TextsOfLength(n) : n \in 0..MaxTokens }

-----------------------------------------------------------------------------
(* _extract_entities (lines 82-110): years and categories.                 *)

\* \b between s[i] and s[i+1] (1-based), i in 0..Len(s)
WordBoundary(s, i) ==
    (i >= 1 /\ IsWordChar(s[i])) # (i < Len(s) /\ IsWordChar(s[i + 1]))

\* r'(20\d{2})', the pattern of line 92 without its two \b, matches s[i:i+4]
YearAt_unanchored(s, i) ==
    /\ i + 4 <= Len(s)
    /\ s[i + 1] = "2" /\ s[i + 2] = "0"
    /\ IsDigit(s[i + 3]) /\ IsDigit(s[i + 4])

\* r'\b(20\d{2})\b' matches s[i:i+4]
YearAt(s, i) ==
    /\ i + 4 <= Len(s)
    /\ WordBoundary(s, i)
    /\ s[i + 1] = "2" /\ s[i + 2] = "0"
    /\ IsDigit(s[i + 3]) /\ IsDigit(s[i + 4])
    /\ WordBoundary(s, i + 4)

DigitValue(c) == IndexIn(c, DigitChars) - 1

\* int(year) of the four characters s[i:i+4]
IntAt(s, i) ==
    1000 * DigitValue(s[i + 1]) + 100 * DigitValue(s[i + 2])
      + 10 * DigitValue(s[i + 3]) + DigitValue(s[i + 4])

\* re.findall(r'\b(20\d{2})\b', s) from position i on: the matches from left
\* to right, the scan resuming after the end of each match (line 92), each
\* converted by int (line 94)
RECURSIVE find_years_from(_, _)
find_years_from(s, i) ==
    IF i + 4 > Len(s) THEN << >>
    ELSE IF YearAt(s, i)
         THEN << IntAt(s, i) >> \o find_years_from(s, i + 4)
         ELSE find_years_from(s, i + 1)

find_years(s) == find_years_from(s, 0)

Keywords ==
    [ safe |-> <<"s","a","f","e">>,
      critical |-> <<"c","r","i","t","i","c","a","l">>,
      semi |-> <<"s","e","m","i">>,
      semi_critical |-> <<"s","e","m","i","-","c","r","i","t","i","c","a","l">>,
      over |-> <<"o","v","e","r">>,
      exploited |-> <<"e","x","p","l","o","i","t","e","d">> ]

\* lines 97-105 written as one if/elif chain: the first keyword found
\* decides the only category
find_categories_elif(s) ==
    IF Contains(s, Keywords.safe) THEN << "Safe" >>
    ELSE IF Contains(s, Keywords.critical) THEN << "Critical" >>
    ELSE IF Contains(s, Keywords.semi) \/ Contains(s, Keywords.semi_critical) THEN << "Semi-Critical" >>
    ELSE IF Contains(s, Keywords.over) \/ Contains(s, Keywords.exploited) THEN << "Over-Exploited" >>
    ELSE << >>

\* lines 97-105: the categories list, in the order of the appends
find_categories(s) ==
       (IF Contains(s, Keywords.safe) THEN << "Safe" >> ELSE << >>)
    \o (IF Contains(s, Keywords.critical) THEN << "Critical" >> ELSE << >>)
    \o (IF Contains(s, Keywords.semi) \/ Contains(s, Keywords.semi_critical)
        THEN << "Semi-Critical" >> ELSE << >>)
    \o (IF Contains(s, Keywords.over) \/ Contains(s, Keywords.exploited)
        THEN << "Over-Exploited" >> ELSE << >>)

EntityKeys == { "locations", "years", "categories" }

\* lines 84-110 without the three `if <list>:` tests: every key is set
extract_entities_unguarded(locs, s) ==
    [ k \in EntityKeys |-> CASE k = "locations" -> locs
                              [] k = "years" -> find_years(s)
                              [] k = "categories" -> find_categories(s) ]

\* the dict of lines 84-110: a key is set only under `if <list>:`
extract_entities(locs, s) ==
    LET years == find_years(s)
        categories == find_categories(s)
        value(k) == CASE k = "locations" -> locs
                      [] k = "years" -> years
                      [] k = "categories" -> categories
    IN  [ k \in { key \in EntityKeys : value(key) # << >> } |-> value(k) ]

\* {}
EmptyDict == [ k \in {} |-> << >> ]

\* entities.get(key): the value, or a falsy value (the empty sequence) for a
\* missing key; the program only tests the result for truth
Get(dict, key) == IF key \in DOMAIN dict THEN dict[key] ELSE << >>

-----------------------------------------------------------------------------
(* The database (src/data/init_database.py): four tables read by the       *)
(* processor.  REAL columns are held in thousandths.                       *)

TableNames == { "states", "districts", "blocks", "groundwater_assessment" }

Names ==
    [ Delhi |-> <<"D","e","l","h","i">>,
      Punjab |-> <<"P","u","n","j","a","b">>,
      SouthDelhi |-> <<"S","o","u","t","h"," ","D","e","l","h","i">>,
      Amritsar |-> <<"A","m","r","i","t","s","a","r">>,
      SouthDelhiBlock1 |-> <<"S","o","u","t","h"," ","D","e","l","h","i"," ","B","l","o","c","k","-","1">>,
      AmritsarBlock1 |-> <<"A","m","r","i","t","s","a","r"," ","B","l","o","c","k","-","1">>,
      AllIndia |-> <<"A","l","l"," ","I","n","d","i","a">>,
      AMRITSAR |-> <<"A","M","R","I","T","S","A","R">>,
      Goa |-> <<"G","o","a">> ]

\* rows of states, districts and blocks (lines 78-131 of init_database.py)
StateRows ==
    << [state_id |-> 1, state_name |-> Names.Delhi],
       [state_id |-> 3, state_name |-> Names.Punjab] >>
DistrictRows ==
    << [district_id |-> 3, district_name |-> Names.SouthDelhi, state_id |-> 1],
       [district_id |-> 7, district_name |-> Names.Amritsar, state_id |-> 3] >>
BlockRows ==
    << [block_id |-> 1, block_name |-> Names.SouthDelhiBlock1, district_id |-> 3],
       [block_id |-> 2, block_name |-> Names.AmritsarBlock1, district_id |-> 7] >>

Assessment(block, year, category, stage, pre, post, recharge, extractable, extraction) ==
    [ block_id |-> block, assessment_year |-> year, category |-> category,
      stage_of_extraction |-> stage,
      water_level_pre_monsoon |-> pre, water_level_post_monsoon |-> post,
      annual_recharge_mcm |-> recharge,
      extractable_resources_mcm |-> extractable,
      total_extraction_mcm |-> extraction ]

\* rows groundwater_assessment can hold, in rowid order (lines 141-178 of
\* init_database.py give the ranges of each category)
AssessmentRows ==
    << Assessment(1, 2024, "Over-Exploited", 120456, 40125, 36500, 55250, 46962, 56568),
       Assessment(2, 2024, "Safe", 45333, 8674, 5250, 150125, 127606, 57846),
       Assessment(2, 2023, "Semi-Critical", 75500, 18250, 15125, 100500, 85424, 64496),
       Assessment(1, 2023, "Critical", 95016, 30375, 26250, 70125, 59606, 56636) >>

Min(a, b) == IF a <= b THEN a ELSE b

\* the database with the given tables and the first n assessment rows
Database(tables, n) ==
    [ tables |-> tables,
      states |-> StateRows, districts |-> DistrictRows, blocks |-> BlockRows,
      groundwater_assessment |-> SubSeq(AssessmentRows, 1, Min(n, Len(AssessmentRows))) ]

\* the databases the processor may be pointed at: every table present, or
\* one table missing from the schema
Stores ==
       { Database(TableNames, n) : n \in 0..MaxAssessments }
    \cup { Database(TableNames \ {t}, MaxAssessments) : t \in TableNames }

-----------------------------------------------------------------------------
(* A populated database, as create_database fills it: a block after the    *)
(* other, each with its assessments of one to three years.  A quantity is  *)
(* a number of thousandths.                                                *)

\* lines 119-131: the first n blocks, two in South Delhi and then one in
\* Amritsar, named f"{district_name} Block-{i+1}" (line 127)
PopulatedBlocks(n) ==
    LET Decimal(k) ==
            IF k < 10 THEN << DigitChars[k + 1] >>
            ELSE << DigitChars[(k \div 10) + 1], DigitChars[(k % 10) + 1] >>
        district(k) == IF k % 3 = 0 THEN DistrictRows[2] ELSE DistrictRows[1]
    IN  [ k \in 1..n |->
            [ block_id |-> k,
              block_name |-> district(k).district_name
                             \o << " ","B","l","o","c","k","-" >> \o Decimal(k),
              district_id |-> district(k).district_id ] ]

\* lines 145-178: the assessment of block k in a year.  The category drawn
\* (line 145) and the draws of random.uniform follow from k and the year;
\* each quantity is in the range of its category, and has 4 as its third
\* decimal, so that round(x, 2) of it, and of a sum or an average of fewer
\* than ten such quantities, is never a tie
PopulatedAssessment(k, year) ==
    LET d == k + (2024 - year)
        category == IF d % 7 = 0 THEN "Semi-Critical"
                    ELSE IF d % 2 = 1 THEN "Safe"
                    ELSE IF d % 4 = 0 THEN "Over-Exploited" ELSE "Critical"
        m == (k * 37 + (2024 - year) * 11) % 101
        off_tie(v) == (v \div 10) * 10 + 4
        stage == CASE category = "Safe" -> 20004 + m * 490
                   [] category = "Semi-Critical" -> 70004 + m * 190
                   [] category = "Critical" -> 90004 + m * 90
                   [] category = "Over-Exploited" -> 100004 + m * 490
        recharge == CASE category = "Safe" -> 100004 + m * 990
                      [] category = "Semi-Critical" -> 80004 + m * 390
                      [] category = "Critical" -> 60004 + m * 290
                      [] category = "Over-Exploited" -> 40004 + m * 290
        pre == CASE category = "Safe" -> 5004 + m * 90
                 [] category = "Semi-Critical" -> 15004 + m * 90
                 [] category = "Critical" -> 25004 + m * 90
                 [] category = "Over-Exploited" -> 35004 + m * 140
        extractable == off_tie((recharge * 85) \div 100)
        extraction == off_tie(((stage \div 100) * extractable) \div 1000)
    IN  Assessment(k, year, category, stage, pre, pre - 3000 - (m % 3) * 1000,
                   recharge, extractable, extraction)

\* lines 141-178: the assessments of the first n blocks in rowid order, a
\* block after the other and its years ascending
RECURSIVE PopulatedAssessments(_)
PopulatedAssessments(n) ==
    IF n = 0 THEN << >>
    ELSE LET years == (IF n % 4 = 1 THEN << 2022 >> ELSE << >>)
                      \o (IF n % 2 = 0 THEN << 2023 >> ELSE << >>)
                      \o << 2024 >>
         IN  PopulatedAssessments(n - 1)
             \o [ i \in DOMAIN years |-> PopulatedAssessment(n, years[i]) ]

\* the database after the first n blocks were written
PopulatedDatabase(n) ==
    [ tables |-> TableNames,
      states |-> StateRows, districts |-> DistrictRows,
      blocks |-> PopulatedBlocks(n),
      groundwater_assessment |-> PopulatedAssessments(n) ]

PopulatedStores == { PopulatedDatabase(n) : n \in 0..MaxBlocks }

\* cursor.execute(...) succeeds: the file is readable and the tables exist
CanRead(st, up, tables) == up /\ tables \subseteq st.tables

-----------------------------------------------------------------------------
(* _extract_locations (lines 112-163).                                     *)

\* [row[0].lower() for row in cursor.fetchall()]
lowered(rows, column) == [ i \in DOMAIN rows |-> lower(rows[i][column]) ]


\* lines 137-141: the first district that starts with word, title-cased
first_district_starting(word, districts) ==
    LET hits == { i \in DOMAIN districts : StartsWith(districts[i], word) }
    IN  IF hits = {} THEN << >>
        ELSE << title(districts[CHOOSE i \in hits : \A j \in hits : i <= j]) >>

\* lines 134-141: the loop over the words of the query, from the k-th word
\* on.  d.split()[0] raises IndexError for a district name without a word;
\* the loop then stops with the locations appended so far.
RECURSIVE word_loop(_, _, _, _, _)
word_loop(words, k, states, districts, acc) ==
    IF k > Len(words) THEN [ locations |-> acc, raised |-> FALSE ]
    ELSE IF words[k] \in Range(states)
         THEN word_loop(words, k + 1, states, districts, Append(acc, title(words[k])))
         ELSE IF \E i \in DOMAIN districts : split(districts[i]) = << >>
              THEN [ locations |-> acc, raised |-> TRUE ]
              ELSE IF \E i \in DOMAIN districts : lower(split(districts[i])[1]) = words[k]
                   THEN word_loop(words, k + 1, states, districts,
                                  acc \o first_district_starting(words[k], districts))
                   ELSE word_loop(words, k + 1, states, districts, acc)

\* lines 145-155: each of names[i..] that occurs in the query, title-cased
RECURSIVE names_in_from(_, _, _)
names_in_from(q, names, i) ==
    IF i > Len(names) THEN << >>
    ELSE (IF Contains(q, names[i]) THEN << title(names[i]) >> ELSE << >>)
         \o names_in_from(q, names, i + 1)

names_in(q, names) == names_in_from(q, names, 1)

\* lines 131-155: the locations list when the three reads succeeded
matched_locations(q, st) ==
    LET states == lowered(st.states, "state_name")
        districts == lowered(st.districts, "district_name")
        blocks == lowered(st.blocks, "block_name")
        words == word_loop(split(lower(q)), 1, states, districts, << >>)
    IN  IF words.raised THEN words.locations
        ELSE words.locations \o names_in(lower(q), states)
               \o names_in(lower(q), districts) \o names_in(lower(q), blocks)

\* the elements of locs, each once, in the order of their first occurrence
RECURSIVE distinct(_)
distinct(locs) ==
    IF locs = << >> THEN << >>
    ELSE LET front == distinct(SubSeq(locs, 1, Len(locs) - 1))
             last == locs[Len(locs)]
         IN  IF last \in Range(front) THEN front ELSE Append(front, last)

\* the k-th arrangement of list
RECURSIVE permuted(_, _)
permuted(list, k) ==
    IF list = << >> THEN << >>
    ELSE LET n == Len(list)
             i == (k % n) + 1
         IN  << list[i] >>
               \o permuted(SubSeq(list, 1, i - 1) \o SubSeq(list, i + 1, n), k \div n)

\* list(set(locations)) (line 163): the distinct elements, in the order of
\* the hash table, which the elements inserted and the hash seed of the
\* process decide
deduplicated(locs, seed) == permuted(distinct(locs), seed)

-----------------------------------------------------------------------------
(* SQL as the queries of lines 207-509 use it.                             *)

\* the rows of table whose column equals value
RowsWhere(table, column, value) ==
    SelectSeq(table, LAMBDA r : r[column] = value)

\* FROM groundwater_assessment ga JOIN blocks b JOIN districts d JOIN states s
\* from the i-th assessment on: the ids are primary keys, so an assessment
\* joins with at most one block, district and state
RECURSIVE joined_from(_, _)
joined_from(st, i) ==
    IF i > Len(st.groundwater_assessment) THEN << >>
    ELSE LET ga == st.groundwater_assessment[i]
             bs == RowsWhere(st.blocks, "block_id", ga.block_id)
             ds == IF bs = << >> THEN << >>
                   ELSE RowsWhere(st.districts, "district_id", bs[1].district_id)
             ss == IF ds = << >> THEN << >>
                   ELSE RowsWhere(st.states, "state_id", ds[1].state_id)
         IN  (IF ss = << >> THEN << >>
              ELSE << [ ga |-> ga, b |-> bs[1], d |-> ds[1], s |-> ss[1] ] >>)
             \o joined_from(st, i + 1)

joined(st) == joined_from(st, 1)

\* text LIKE pattern from positions j of text and i of pattern: % matches any
\* run of characters, _ any one character, a letter either case of itself
RECURSIVE like_from(_, _, _, _)
like_from(pattern, i, text, j) ==
    IF i > Len(pattern) THEN j > Len(text)
    ELSE IF pattern[i] = "%"
         THEN \E k \in j..(Len(text) + 1) : like_from(pattern, i + 1, text, k)
         ELSE /\ j <= Len(text)
              /\ pattern[i] = "_" \/ lower_char(pattern[i]) = lower_char(text[j])
              /\ like_from(pattern, i + 1, text, j + 1)

Like(text, pattern) == like_from(pattern, 1, text, 1)

\* the WHERE clause with `OR LOWER(b.block_name) LIKE ?` added
location_matches_or_block(row, location) ==
    LET pattern == << "%" >> \o lower(location) \o << "%" >>
    IN  \/ Like(lower(row.s.state_name), pattern)
        \/ Like(lower(row.d.district_name), pattern)
        \/ Like(lower(row.b.block_name), pattern)

\* WHERE (LOWER(s.state_name) LIKE ? OR LOWER(d.district_name) LIKE ?) with
\* both parameters f'%{location.lower()}%'
location_matches(row, location) ==
    LET pattern == << "%" >> \o lower(location) \o << "%" >>
    IN  \/ Like(lower(row.s.state_name), pattern)
        \/ Like(lower(row.d.district_name), pattern)

\* the column of a row that the path names: a column of the row itself, or
\* of the table with that alias in a joined row
column(row, path) ==
    IF Len(path) = 1 THEN row[path[1]] ELSE row[path[1]][path[2]]

\* LIMIT n
Limit(rows, n) == SubSeq(rows, 1, Min(n, Len(rows)))

\* ORDER BY key [DESC]: insertion of a (key, row) pair into a sequence
\* already in order, after the pairs that do not come later than it
RECURSIVE insert_ordered(_, _, _)
insert_ordered(sorted, pair, descending) ==
    IF sorted = << >> THEN << pair >>
    ELSE IF (IF descending THEN pair[1] > Head(sorted)[1] ELSE pair[1] < Head(sorted)[1])
         THEN << pair >> \o sorted
         ELSE << Head(sorted) >> \o insert_ordered(Tail(sorted), pair, descending)

RECURSIVE sort_pairs(_, _)
sort_pairs(pairs, descending) ==
    IF pairs = << >> THEN << >>
    ELSE insert_ordered(sort_pairs(SubSeq(pairs, 1, Len(pairs) - 1), descending),
                        pairs[Len(pairs)], descending)

order_by(rows, path, descending) ==
    LET sorted == sort_pairs([ i \in DOMAIN rows |-> << column(rows[i], path), rows[i] >> ],
                             descending)
    IN  [ i \in DOMAIN sorted |-> sorted[i][2] ]

RECURSIVE SumSeq(_)
SumSeq(values) == IF values = << >> THEN 0 ELSE Head(values) + SumSeq(Tail(values))

\* SUM(column)
Sum(rows, path) == SumSeq([ i \in DOMAIN rows |-> column(rows[i], path) ])

\* round(num / den, 2) of a value in thousandths, as hundredths: Python
\* rounds to the nearest hundredth and a tie to the even one
round2(num, den) ==
    LET unit == 10 * den
        q == num \div unit
        r == num % unit
    IN  IF 2 * r < unit THEN q
        ELSE IF 2 * r > unit THEN q + 1
        ELSE IF q % 2 = 0 THEN q ELSE q + 1

round_value(v) == round2(v, 1)

\* round(AVG(column), 2) over a non-empty row list
round_avg(rows, path) == round2(Sum(rows, path), Len(rows))

\* COUNT(DISTINCT column)
count_distinct(rows, path) == Cardinality({ column(rows[i], path) : i \in DOMAIN rows })

\* what a call produced: a value, or the exception it raised
NoValue == [ absent |-> TRUE ]
Returned(v) == [ raised |-> "none", value |-> v ]
Raised(e) == [ raised |-> e, value |-> NoValue ]

\* WHERE ga.assessment_year = year, on the join and on the bare table
joined_in_year(st, year) ==
    SelectSeq(joined(st), LAMBDA r : r.ga.assessment_year = year)
assessed_in_year(st, year) ==
    SelectSeq(st.groundwater_assessment, LAMBDA ga : ga.assessment_year = year)

\* entities.get('locations', d)[0] if entities.get('locations') else default
first_or(dict, key, default) ==
    IF Get(dict, key) # << >> THEN Get(dict, key)[1] ELSE default

\* None, the location of a query that names none
None == << >>

-----------------------------------------------------------------------------
(* The data fetch methods (lines 207-525).  Each takes the database and    *)
(* whether it can be read, and yields Returned(record) or Raised(error).   *)

\* _get_groundwater_status without `AND ga.assessment_year = ?` (line 221)
get_groundwater_status_any_year(st, up, ents) ==
    LET location == first_or(ents, "locations", Names.Delhi)
        year == first_or(ents, "years", 2024)
        results == Limit(SelectSeq(joined(st),
                                   LAMBDA r : location_matches(r, location)), 10)
    IN  IF ~CanRead(st, up, TableNames) THEN Raised("OperationalError")
        ELSE Returned(
               [ location |-> location,
                 year |-> year,
                 blocks |-> [ i \in DOMAIN results |->
                     [ block_name |-> results[i].b.block_name,
                       category |-> results[i].ga.category,
                       stage_of_extraction |-> round_value(results[i].ga.stage_of_extraction),
                       water_level |-> round_value(results[i].ga.water_level_pre_monsoon),
                       annual_recharge |-> round_value(results[i].ga.annual_recharge_mcm),
                       district |-> results[i].d.district_name,
                       state |-> results[i].s.state_name ] ] ])

\* _get_groundwater_status (lines 207-242)
get_groundwater_status(st, up, ents) ==
    LET location == first_or(ents, "locations", Names.Delhi)
        year == first_or(ents, "years", 2024)
        results == Limit(SelectSeq(joined(st),
                                   LAMBDA r : /\ location_matches(r, location)
                                              /\ r.ga.assessment_year = year), 10)
    IN  IF ~CanRead(st, up, TableNames) THEN Raised("OperationalError")
        ELSE Returned(
               [ location |-> location,
                 year |-> year,
                 blocks |-> [ i \in DOMAIN results |->
                     [ block_name |-> results[i].b.block_name,
                       category |-> results[i].ga.category,
                       stage_of_extraction |-> round_value(results[i].ga.stage_of_extraction),
                       water_level |-> round_value(results[i].ga.water_level_pre_monsoon),
                       annual_recharge |-> round_value(results[i].ga.annual_recharge_mcm),
                       district |-> results[i].d.district_name,
                       state |-> results[i].s.state_name ] ] ])

\* _get_critical_areas with 'Semi-Critical' among the categories of line 253
get_critical_areas_with_semi(st, up) ==
    LET results == Limit(order_by(SelectSeq(joined_in_year(st, 2024),
                                            LAMBDA r : r.ga.category \in { "Semi-Critical", "Critical", "Over-Exploited" }),
                                  << "ga", "stage_of_extraction" >>, TRUE), 15)
    IN  IF ~CanRead(st, up, TableNames) THEN Raised("OperationalError")
        ELSE Returned(
               [ critical_areas |-> [ i \in DOMAIN results |->
                     [ block |-> results[i].b.block_name,
                       district |-> results[i].d.district_name,
                       state |-> results[i].s.state_name,
                       category |-> results[i].ga.category,
                       extraction_percentage |-> round_value(results[i].ga.stage_of_extraction) ] ] ])

\* _get_critical_areas (lines 244-272)
get_critical_areas(st, up) ==
    LET results == Limit(order_by(SelectSeq(joined_in_year(st, 2024),
                                            LAMBDA r : r.ga.category \in { "Critical", "Over-Exploited" }),
                                  << "ga", "stage_of_extraction" >>, TRUE), 15)
    IN  IF ~CanRead(st, up, TableNames) THEN Raised("OperationalError")
        ELSE Returned(
               [ critical_areas |-> [ i \in DOMAIN results |->
                     [ block |-> results[i].b.block_name,
                       district |-> results[i].d.district_name,
                       state |-> results[i].s.state_name,
                       category |-> results[i].ga.category,
                       extraction_percentage |-> round_value(results[i].ga.stage_of_extraction) ] ] ])

\* _get_safe_areas with the first 15 rows taken before they are ordered
get_safe_areas_limit_first(st, up) ==
    LET results == order_by(Limit(SelectSeq(joined_in_year(st, 2024),
                                            LAMBDA r : r.ga.category = "Safe"), 15),
                            << "ga", "stage_of_extraction" >>, FALSE)
    IN  IF ~CanRead(st, up, TableNames) THEN Raised("OperationalError")
        ELSE Returned(
               [ safe_areas |-> [ i \in DOMAIN results |->
                     [ block |-> results[i].b.block_name,
                       district |-> results[i].d.district_name,
                       state |-> results[i].s.state_name,
                       extraction_percentage |-> round_value(results[i].ga.stage_of_extraction),
                       annual_recharge |-> round_value(results[i].ga.annual_recharge_mcm) ] ] ])

\* _get_safe_areas (lines 274-302)
get_safe_areas(st, up) ==
    LET results == Limit(order_by(SelectSeq(joined_in_year(st, 2024),
                                            LAMBDA r : r.ga.category = "Safe"),
                                  << "ga", "stage_of_extraction" >>, FALSE), 15)
    IN  IF ~CanRead(st, up, TableNames) THEN Raised("OperationalError")
        ELSE Returned(
               [ safe_areas |-> [ i \in DOMAIN results |->
                     [ block |-> results[i].b.block_name,
                       district |-> results[i].d.district_name,
                       state |-> results[i].s.state_name,
                       extraction_percentage |-> round_value(results[i].ga.stage_of_extraction),
                       annual_recharge |-> round_value(results[i].ga.annual_recharge_mcm) ] ] ])

\* the rows of the location-scoped queries of lines 309-319, 398-407 and
\* 445-454: the join, filtered by location and year 2024, LIMIT 10
scoped_rows(st, location) ==
    Limit(SelectSeq(joined_in_year(st, 2024),
                    LAMBDA r : location_matches(r, location)), 10)

\* _get_water_levels (lines 304-349)
get_water_levels(st, up, ents) ==
    LET location == first_or(ents, "locations", None)
        results == scoped_rows(st, location)
        national == assessed_in_year(st, 2024)
    IN  IF location # None
        THEN IF ~CanRead(st, up, TableNames) THEN Raised("OperationalError")
             ELSE Returned(
                    [ location |-> location,
                      water_levels |-> [ i \in DOMAIN results |->
                          [ block |-> results[i].b.block_name,
                            pre_monsoon |-> round_value(results[i].ga.water_level_pre_monsoon),
                            post_monsoon |-> round_value(results[i].ga.water_level_post_monsoon),
                            year |-> results[i].ga.assessment_year ] ] ])
        ELSE IF ~CanRead(st, up, { "groundwater_assessment" }) THEN Raised("OperationalError")
             \* AVG of no row is NULL, and round(None, 2) raises TypeError
             ELSE IF national = << >> THEN Raised("TypeError")
             ELSE Returned(
                    [ average_water_levels |->
                          [ pre_monsoon |-> round_avg(national, << "water_level_pre_monsoon" >>),
                            post_monsoon |-> round_avg(national, << "water_level_post_monsoon" >>) ] ])


\* GROUP BY assessment_year ORDER BY assessment_year
years_of(rows, path) == { column(rows[i], path) : i \in DOMAIN rows }

RECURSIVE ascending(_)
ascending(S) ==
    IF S = {} THEN << >>
    ELSE LET least == CHOOSE x \in S : \A y \in S : x <= y
         IN  << least >> \o ascending(S \ { least })

\* the two queries with `WHERE ga.assessment_year = 2024` added, as in the other methods
get_historical_data_in_2024(st, up, ents) ==
    LET location == first_or(ents, "locations", None)
        scoped == SelectSeq(joined(st), LAMBDA r : location_matches(r, location) /\ r.ga.assessment_year = 2024)
        scoped_years == ascending(years_of(scoped, << "ga", "assessment_year" >>))
        scoped_group(y) == SelectSeq(scoped, LAMBDA r : r.ga.assessment_year = y)
        all == assessed_in_year(st, 2024)
        all_years == ascending(years_of(all, << "assessment_year" >>))
        all_group(y) == SelectSeq(all, LAMBDA ga : ga.assessment_year = y)
    IN  IF location # None
        THEN IF ~CanRead(st, up, TableNames) THEN Raised("OperationalError")
             ELSE Returned(
                    [ historical_trends |-> [ i \in DOMAIN scoped_years |->
                          [ year |-> scoped_years[i],
                            avg_extraction |-> round_avg(scoped_group(scoped_years[i]), << "ga", "stage_of_extraction" >>),
                            avg_water_level |-> round_avg(scoped_group(scoped_years[i]), << "ga", "water_level_pre_monsoon" >>),
                            blocks_assessed |-> count_distinct(scoped_group(scoped_years[i]), << "b", "block_id" >>) ] ],
                      location |-> location ])
        ELSE IF ~CanRead(st, up, { "groundwater_assessment" }) THEN Raised("OperationalError")
             ELSE Returned(
                    [ historical_trends |-> [ i \in DOMAIN all_years |->
                          [ year |-> all_years[i],
                            avg_extraction |-> round_avg(all_group(all_years[i]), << "stage_of_extraction" >>),
                            avg_water_level |-> round_avg(all_group(all_years[i]), << "water_level_pre_monsoon" >>),
                            blocks_assessed |-> count_distinct(all_group(all_years[i]), << "block_id" >>) ] ],
                      location |-> Names.AllIndia ])

\* _get_historical_data (lines 351-391)
get_historical_data(st, up, ents) ==
    LET location == first_or(ents, "locations", None)
        scoped == SelectSeq(joined(st), LAMBDA r : location_matches(r, location))
        scoped_years == ascending(years_of(scoped, << "ga", "assessment_year" >>))
        scoped_group(y) == SelectSeq(scoped, LAMBDA r : r.ga.assessment_year = y)
        all == st.groundwater_assessment
        all_years == ascending(years_of(all, << "assessment_year" >>))
        all_group(y) == SelectSeq(all, LAMBDA ga : ga.assessment_year = y)
    IN  IF location # None
        THEN IF ~CanRead(st, up, TableNames) THEN Raised("OperationalError")
             ELSE Returned(
                    [ historical_trends |-> [ i \in DOMAIN scoped_years |->
                          [ year |-> scoped_years[i],
                            avg_extraction |-> round_avg(scoped_group(scoped_years[i]), << "ga", "stage_of_extraction" >>),
                            avg_water_level |-> round_avg(scoped_group(scoped_years[i]), << "ga", "water_level_pre_monsoon" >>),
                            blocks_assessed |-> count_distinct(scoped_group(scoped_years[i]), << "b", "block_id" >>) ] ],
                      location |-> location ])
        ELSE IF ~CanRead(st, up, { "groundwater_assessment" }) THEN Raised("OperationalError")
             ELSE Returned(
                    [ historical_trends |-> [ i \in DOMAIN all_years |->
                          [ year |-> all_years[i],
                            avg_extraction |-> round_avg(all_group(all_years[i]), << "stage_of_extraction" >>),
                            avg_water_level |-> round_avg(all_group(all_years[i]), << "water_level_pre_monsoon" >>),
                            blocks_assessed |-> count_distinct(all_group(all_years[i]), << "block_id" >>) ] ],
                      location |-> Names.AllIndia ])

\* _get_recharge_data (lines 393-438)
get_recharge_data(st, up, ents) ==
    LET location == first_or(ents, "locations", None)
        results == scoped_rows(st, location)
        national == assessed_in_year(st, 2024)
    IN  IF location # None
        THEN IF ~CanRead(st, up, TableNames) THEN Raised("OperationalError")
             ELSE Returned(
                    [ location |-> location,
                      recharge_data |-> [ i \in DOMAIN results |->
                          [ block |-> results[i].b.block_name,
                            annual_recharge |-> round_value(results[i].ga.annual_recharge_mcm),
                            extractable_resources |-> round_value(results[i].ga.extractable_resources_mcm) ] ] ])
        ELSE IF ~CanRead(st, up, { "groundwater_assessment" }) THEN Raised("OperationalError")
             \* AVG and SUM of no row are NULL
             ELSE IF national = << >> THEN Raised("TypeError")
             ELSE Returned(
                    [ national_recharge |->
                          [ average_annual_recharge |-> round_avg(national, << "annual_recharge_mcm" >>),
                            average_extractable |-> round_avg(national, << "extractable_resources_mcm" >>),
                            total_recharge |-> round_value(Sum(national, << "annual_recharge_mcm" >>)) ] ])

\* _get_extraction_data (lines 440-486)
get_extraction_data(st, up, ents) ==
    LET location == first_or(ents, "locations", None)
        results == scoped_rows(st, location)
        national == assessed_in_year(st, 2024)
    IN  IF location # None
        THEN IF ~CanRead(st, up, TableNames) THEN Raised("OperationalError")
             ELSE Returned(
                    [ location |-> location,
                      extraction_data |-> [ i \in DOMAIN results |->
                          [ block |-> results[i].b.block_name,
                            total_extraction |-> round_value(results[i].ga.total_extraction_mcm),
                            extraction_stage |-> round_value(results[i].ga.stage_of_extraction),
                            category |-> results[i].ga.category ] ] ])
        ELSE IF ~CanRead(st, up, { "groundwater_assessment" }) THEN Raised("OperationalError")
             ELSE IF national = << >> THEN Raised("TypeError")
             ELSE Returned(
                    [ national_extraction |->
                          [ average_extraction |-> round_avg(national, << "total_extraction_mcm" >>),
                            average_stage |-> round_avg(national, << "stage_of_extraction" >>),
                            total_extraction |-> round_value(Sum(national, << "total_extraction_mcm" >>)) ] ])

\* _get_general_stats (lines 488-509)
get_general_stats(st, up) ==
    LET rows == joined_in_year(st, 2024)
    IN  IF ~CanRead(st, up, TableNames) THEN Raised("OperationalError")
        \* AVG of no row is NULL, and round(None, 2) raises TypeError
        ELSE IF rows = << >> THEN Raised("TypeError")
        ELSE Returned(
               [ general_stats |->
                     [ states_covered |-> count_distinct(rows, << "s", "state_id" >>),
                       districts_covered |-> count_distinct(rows, << "d", "district_id" >>),
                       blocks_covered |-> count_distinct(rows, << "b", "block_id" >>),
                       average_extraction_stage |-> round_avg(rows, << "ga", "stage_of_extraction" >>) ] ])

\* _get_help_info (lines 511-525): reads nothing
get_help_info ==
    Returned(
      [ help |-> << "You can ask about groundwater status in any state/district/block.",
                    "Examples:",
                    "- What is the groundwater status in Karnataka?",
                    "- Show critical areas in Tamil Nadu",
                    "- What is the average water level in Delhi?",
                    "- Give me historical trends for Punjab",
                    "- Compare extraction between states",
                    "- List safe areas in Maharashtra",
                    "- Show recharge and extraction rates" >> ])

-----------------------------------------------------------------------------
(* format_response (src/app.py, lines 18-159): the consumer of the result. *)

\* the top-level keys of data that format_response looks up for the intent,
\* by data.get(key, default), data[key] or `key in data`
format_response_reads(i, data) ==
    CASE i = "groundwater_status" -> { "location", "year", "blocks" }
      [] i = "critical_areas" -> { "critical_areas" }
      [] i = "safe_areas" -> { "safe_areas" }
      [] i = "water_level" ->
           IF "location" \in DOMAIN data THEN { "location", "water_levels" }
           ELSE { "location", "average_water_levels" }
      [] i = "historical" -> { "location", "historical_trends" }
      [] i = "recharge" ->
           IF "location" \in DOMAIN data THEN { "location", "recharge_data" }
           ELSE { "location", "national_recharge" }
      [] i = "extraction" ->
           IF "location" \in DOMAIN data THEN { "location", "extraction_data" }
           ELSE { "location", "national_extraction" }
      [] i = "help" -> { "capabilities", "sample_queries" }
      \* else: general stats
      [] OTHER -> { "coverage", "category_distribution" }

-----------------------------------------------------------------------------
(* _get_response_data (lines 179-204): the dispatch.                       *)

\* the chain of lines 185-202 with a branch of its own for 'comparison'
strategy_for_comparison_branch(i) ==
    CASE i = "groundwater_status" -> "_get_groundwater_status"
      [] i = "critical_areas" -> "_get_critical_areas"
      [] i = "safe_areas" -> "_get_safe_areas"
      [] i = "water_level" -> "_get_water_levels"
      [] i = "historical" -> "_get_historical_data"
      [] i = "recharge" -> "_get_recharge_data"
      [] i = "extraction" -> "_get_extraction_data"
      [] i = "comparison" -> "_get_help_info"
      [] i = "help" -> "_get_help_info"
      [] OTHER -> "_get_general_stats"

\* the if/elif chain of lines 185-202: the method the intent selects
strategy_for(i) ==
    CASE i = "groundwater_status" -> "_get_groundwater_status"
      [] i = "critical_areas" -> "_get_critical_areas"
      [] i = "safe_areas" -> "_get_safe_areas"
      [] i = "water_level" -> "_get_water_levels"
      [] i = "historical" -> "_get_historical_data"
      [] i = "recharge" -> "_get_recharge_data"
      [] i = "extraction" -> "_get_extraction_data"
      [] i = "help" -> "_get_help_info"
      [] OTHER -> "_get_general_stats"

\* the call of the selected method on the cursor
run_strategy(method, st, up, ents) ==
    CASE method = "_get_groundwater_status" -> get_groundwater_status(st, up, ents)
      [] method = "_get_critical_areas" -> get_critical_areas(st, up)
      [] method = "_get_safe_areas" -> get_safe_areas(st, up)
      [] method = "_get_water_levels" -> get_water_levels(st, up, ents)
      [] method = "_get_historical_data" -> get_historical_data(st, up, ents)
      [] method = "_get_recharge_data" -> get_recharge_data(st, up, ents)
      [] method = "_get_extraction_data" -> get_extraction_data(st, up, ents)
      [] method = "_get_help_info" -> get_help_info
      [] method = "_get_general_stats" -> get_general_stats(st, up)

-----------------------------------------------------------------------------
(* What callers pass in.                                                   *)

Q_status_of_delhi == <<"S","t","a","t","u","s"," ","o","f"," ","D","e","l","h","i"," ","2","0","2","3">>

\* the queries a client sends to process_query
Queries ==
    { << >>,
      <<"s","h","o","w"," ","c","r","i","t","i","c","a","l"," ","a","r","e","a","s">>,
      Q_status_of_delhi,
      <<"l","i","s","t"," ","s","a","f","e"," ","a","r","e","a","s">>,
      <<"w","a","t","e","r"," ","l","e","v","e","l"," ","i","n"," ","s","o","u","t","h"," ","d","e","l","h","i">>,
      <<"s","h","o","w"," ","t","r","e","n","d">>,
      <<"g","r","o","u","n","d","w","a","t","e","r"," ","r","e","c","h","a","r","g","e">>,
      <<"g","r","o","u","n","d","w","a","t","e","r"," ","u","s","a","g","e"," ","i","n"," ","p","u","n","j","a","b">>,
      <<"c","o","m","p","a","r","e"," ","p","u","n","j","a","b"," ","w","i","t","h"," ","d","e","l","h","i">>,
      <<"h","e","l","p">>,
      <<"h","e","l","l","o">>,
      <<"s","e","m","i"," ","c","r","i","t","i","c","a","l"," ","i","n"," ","a","m","r","i","t","s","a","r"," ","b","l","o","c","k","-","1">> }

\* the intent enumeration, and a string outside it
EnumeratedIntents ==
    { "groundwater_status", "critical_areas", "safe_areas", "water_level",
      "historical", "recharge", "extraction", "comparison", "help", "general" }
IntentStrings == EnumeratedIntents \cup { "greeting" }

\* the entity maps passed to _get_response_data when it is called directly
EntityMaps ==
    { EmptyDict,
      extract_entities(<< Names.Punjab >>, << >>),
      extract_entities(<< Names.AmritsarBlock1 >>, Q_status_of_delhi) }

-----------------------------------------------------------------------------
(* The processor as a state machine.                                       *)

NoResult == Raised("none")

\* a step of the running call that concerns the store: op is connect, read,
\* close or run (of a fetch method), by names the connection, the table or
\* the method, and ok tells that no sqlite3.OperationalError was raised
Event(op, by, ok) == [ op |-> op, by |-> by, ok |-> ok ]

Idle ==
    /\ pc = "idle" /\ call = "none"
    /\ query = << >> /\ intent = "none"
    /\ locations = << >> /\ entities = EmptyDict
    /\ catConn = "none" /\ resConn = "none"
    /\ pending = NoResult /\ outcome = NoResult
    /\ trace = << >>

Init ==
    /\ store \in Stores
    /\ storeUp \in BOOLEAN
    /\ hashSeed \in 0..MaxHashSeed
    /\ Idle
    /\ parked = << >>

\* the database file becomes unreachable, or reachable again
Toggle ==
    /\ storeUp' = ~storeUp
    /\ UNCHANGED << store, hashSeed, parked, pc, call, query, intent, locations, entities,
                    catConn, resConn, pending, outcome, trace >>

\* a caller invokes process_query(q) (line 165)
ProcessQuery(q) ==
    /\ pc = "idle"
    /\ call' = "process_query" /\ query' = q /\ pc' = "classify"
    /\ UNCHANGED << store, storeUp, hashSeed, parked, intent, locations, entities, catConn,
                    resConn, pending, outcome, trace >>

\* a caller invokes classify_intent(q) (line 67)
ClassifyIntent(q) ==
    /\ pc = "idle"
    /\ call' = "classify_intent" /\ query' = q /\ pc' = "classify"
    /\ UNCHANGED << store, storeUp, hashSeed, parked, intent, locations, entities, catConn,
                    resConn, pending, outcome, trace >>

\* a caller invokes _get_response_data(i, e) (line 179)
GetResponseData(i, e) ==
    /\ pc = "idle"
    /\ call' = "_get_response_data" /\ intent' = i /\ entities' = e
    /\ pc' = "resolve_connect"
    /\ UNCHANGED << store, storeUp, hashSeed, parked, query, locations, catConn, resConn,
                    pending, outcome, trace >>

\* lines 69-77, 80: the pattern loop, up to the call of _extract_entities
Classify ==
    /\ pc = "classify"
    /\ intent' = classified_intent(query)
    /\ pc' = "loc_connect"
    /\ UNCHANGED << store, storeUp, hashSeed, parked, call, query, locations, entities, catConn,
                    resConn, pending, outcome, trace >>

\* _extract_locations without the except clauses of lines 158-161
caught_by_nothing(error) == FALSE

\* lines 158-161: the except clauses of _extract_locations catch every
\* exception the try block raises
caught_by_lookup(error) == TRUE

\* an exception in the try block of _extract_locations: conn.close() (line
\* 157) is skipped, and line 163 returns the locations appended so far
lookup_failed(event, error, locs) ==
    /\ trace' = Append(trace, event)
    /\ IF caught_by_lookup(error)
       THEN /\ locations' = deduplicated(locs, hashSeed)
            /\ pc' = "entities"
            /\ outcome' = outcome
       ELSE /\ locations' = locations
            /\ pc' = "done"
            /\ outcome' = Raised(error)

\* line 116: sqlite3.connect(self.db_path, timeout=3)
LocConnect ==
    /\ pc = "loc_connect"
    /\ IF storeUp
       THEN /\ catConn' = "open"
            /\ trace' = Append(trace, Event("connect", "catalog", TRUE))
            /\ pc' = "loc_states"
            /\ UNCHANGED << locations, outcome >>
       ELSE /\ catConn' = catConn
            /\ lookup_failed(Event("connect", "catalog", FALSE), "OperationalError", << >>)
    /\ UNCHANGED << store, storeUp, hashSeed, parked, call, query, intent, entities, resConn, pending >>

\* one of the SELECTs of lines 120-129; when it raises, no statement closes
\* the connection, which stays open until the interpreter finalizes the
\* unreferenced object: at once, or at some later collection
catalog_read(table, next) ==
    /\ IF CanRead(store, storeUp, { table })
       THEN /\ trace' = Append(trace, Event("read", table, TRUE))
            /\ pc' = next
            /\ UNCHANGED << locations, outcome, catConn >>
       ELSE /\ lookup_failed(Event("read", table, FALSE), "OperationalError", << >>)
            /\ catConn' \in { "open", "finalized" }
    /\ UNCHANGED << store, storeUp, hashSeed, parked, call, query, intent, entities,
                    resConn, pending >>

\* lines 120-121
LocReadStates == pc = "loc_states" /\ catalog_read("states", "loc_districts")
\* lines 124-125
LocReadDistricts == pc = "loc_districts" /\ catalog_read("districts", "loc_blocks")
\* lines 128-129
LocReadBlocks == pc = "loc_blocks" /\ catalog_read("blocks", "loc_match")

\* lines 131-157 and 163: the matching, conn.close(), list(set(locations))
LocMatch ==
    /\ pc = "loc_match"
    /\ locations' = deduplicated(matched_locations(query, store), hashSeed)
    /\ catConn' = "closed"
    /\ trace' = Append(trace, Event("close", "catalog", TRUE))
    /\ pc' = "entities"
    /\ UNCHANGED << store, storeUp, hashSeed, parked, call, query, intent, entities, resConn,
                    pending, outcome >>

\* lines 88-110 of _extract_entities, the return of classify_intent, and for
\* process_query the call of line 170
Entities ==
    /\ pc = "entities"
    /\ entities' = extract_entities(locations, lower(query))
    /\ IF call = "classify_intent"
       THEN /\ pc' = "done"
            /\ outcome' = Returned([ intent |-> intent, entities |-> entities' ])
       ELSE /\ pc' = "resolve_connect"
            /\ outcome' = outcome
    /\ UNCHANGED << store, storeUp, hashSeed, parked, call, query, intent, locations, catConn,
                    resConn, pending, trace >>

\* lines 181-182: sqlite3.connect and conn.cursor(), before the try block
ResConnect ==
    /\ pc = "resolve_connect"
    /\ IF storeUp
       THEN /\ resConn' = "open"
            /\ trace' = Append(trace, Event("connect", "resolve", TRUE))
            /\ pc' = "strategy"
            /\ outcome' = outcome
       ELSE /\ resConn' = resConn
            /\ trace' = Append(trace, Event("connect", "resolve", FALSE))
            /\ pc' = "done"
            /\ outcome' = Raised("OperationalError")
    /\ UNCHANGED << store, storeUp, hashSeed, parked, call, query, intent, locations, entities,
                    catConn, pending >>

\* lines 184-202: the try block, the selected method run to its return or
\* to the exception it raises
Strategy ==
    /\ pc = "strategy"
    /\ LET method == strategy_for(intent)
           result == run_strategy(method, store, storeUp, entities)
       IN  /\ pending' = result
           /\ trace' = Append(trace, Event("run", method, result.raised # "OperationalError"))
    /\ pc' = "finally"
    /\ UNCHANGED << store, storeUp, hashSeed, parked, call, query, intent, locations, entities,
                    catConn, resConn, outcome >>

\* lines 172-177: the record process_query builds
query_result(q, i, ents, d) ==
    [ intent |-> i, entities |-> ents, data |-> d, query |-> q ]

\* lines 184-204 with conn.close() as the last statement of the try block
\* instead of a finally clause: an exception skips it
Finally_close_in_try ==
    /\ pc = "finally"
    /\ resConn' = IF pending.raised = "none" THEN "closed" ELSE resConn
    /\ trace' = IF pending.raised = "none"
                THEN Append(trace, Event("close", "resolve", TRUE))
                ELSE trace
    /\ outcome' = IF pending.raised # "none" THEN Raised(pending.raised)
                  ELSE IF call = "process_query"
                       THEN Returned(query_result(query, intent, entities, pending.value))
                       ELSE Returned(pending.value)
    /\ pc' = "done"
    /\ UNCHANGED << store, storeUp, hashSeed, parked, call, query, intent, locations, entities,
                    catConn, pending >>

\* lines 184-204 with an `except Exception: return {}` between try and
\* finally: the error becomes an empty result
Finally_except_returns_empty ==
    /\ pc = "finally"
    /\ resConn' = "closed"
    /\ trace' = Append(trace, Event("close", "resolve", TRUE))
    /\ outcome' = LET d == IF pending.raised # "none" THEN EmptyDict ELSE pending.value
                  IN  IF call = "process_query"
                      THEN Returned(query_result(query, intent, entities, d))
                      ELSE Returned(d)
    /\ pc' = "done"
    /\ UNCHANGED << store, storeUp, hashSeed, parked, call, query, intent, locations, entities,
                    catConn, pending >>

\* lines 203-204, then the return of the value or the propagation of the
\* exception out of _get_response_data and, there being no handler in
\* process_query either, out of process_query
Finally ==
    /\ pc = "finally"
    /\ resConn' = "closed"
    /\ trace' = Append(trace, Event("close", "resolve", TRUE))
    /\ outcome' = IF pending.raised # "none" THEN Raised(pending.raised)
                  ELSE IF call = "process_query"
                       THEN Returned(query_result(query, intent, entities, pending.value))
                       ELSE Returned(pending.value)
    /\ pc' = "done"
    /\ UNCHANGED << store, storeUp, hashSeed, parked, call, query, intent, locations, entities,
                    catConn, pending >>

\* a return after which the interpreter hashes strings with another seed,
\* as if list(set(...)) could order the same elements differently from call
\* to call
Return_reseeding ==
    /\ pc = "done"
    /\ pc' = "idle" /\ call' = "none"
    /\ query' = << >> /\ intent' = "none"
    /\ locations' = << >> /\ entities' = EmptyDict
    /\ catConn' = "none" /\ resConn' = "none"
    /\ pending' = NoResult /\ outcome' = NoResult
    /\ trace' = << >>
    /\ hashSeed' = (hashSeed + 1) % (MaxHashSeed + 1)
    /\ UNCHANGED << store, storeUp, parked >>

\* the caller takes the result; the processor keeps nothing of the call
Return ==
    /\ pc = "done"
    /\ pc' = "idle" /\ call' = "none"
    /\ query' = << >> /\ intent' = "none"
    /\ locations' = << >> /\ entities' = EmptyDict
    /\ catConn' = "none" /\ resConn' = "none"
    /\ pending' = NoResult /\ outcome' = NoResult
    /\ trace' = << >>
    /\ UNCHANGED << store, storeUp, hashSeed, parked >>

Next ==
    \/ Toggle
    \/ \E q \in Queries : ProcessQuery(q)
    \/ \E q \in Queries : ClassifyIntent(q)
    \/ \E i \in IntentStrings, e \in EntityMaps : GetResponseData(i, e)
    \/ Classify
    \/ LocConnect
    \/ LocReadStates
    \/ LocReadDistricts
    \/ LocReadBlocks
    \/ LocMatch
    \/ Entities
    \/ ResConnect
    \/ Strategy
    \/ Finally
    \/ Return

Spec == Init /\ [][Next]_vars

-----------------------------------------------------------------------------
(* classify_intent applied to every text of the vocabulary, on a readable  *)
(* database.                                                               *)

TextInit ==
    /\ store = Database(TableNames, MaxAssessments)
    /\ storeUp = TRUE
    /\ hashSeed \in 0..MaxHashSeed
    /\ pc = "classify" /\ call = "classify_intent"
    /\ query \in Texts /\ intent = "none"
    /\ locations = << >> /\ entities = EmptyDict
    /\ catConn = "none" /\ resConn = "none"
    /\ pending = NoResult /\ outcome = NoResult
    /\ trace = << >>
    /\ parked = << >>

TextNext ==
    \/ Classify
    \/ LocConnect
    \/ LocReadStates
    \/ LocReadDistricts
    \/ LocReadBlocks
    \/ LocMatch
    \/ Entities

SpecText == TextInit /\ [][TextNext]_vars

-----------------------------------------------------------------------------
(* _get_response_data applied to every intent and a range of entities, on  *)
(* the populated database at every stage of its filling.                   *)


\* entities as classify_intent builds them, and as a caller may pass them
FetchEntities ==
    { EmptyDict,
      [ locations |-> << Names.Delhi, Names.Punjab >>, years |-> << 2024, 2022 >> ],
      [ locations |-> << Names.Punjab, Names.Delhi >>, years |-> << 2023, 2024 >> ],
      [ years |-> << 2022 >> ],
      [ locations |-> << Names.AMRITSAR >> ],
      [ locations |-> << Names.SouthDelhiBlock1 >>, years |-> << 2024 >> ],
      [ locations |-> << Names.Goa >> ] }

FetchInit ==
    /\ store \in PopulatedStores
    /\ storeUp = TRUE
    \* _get_response_data builds no set
    /\ hashSeed = 0
    /\ pc = "resolve_connect" /\ call = "_get_response_data"
    /\ query = << >> /\ intent \in EnumeratedIntents
    /\ locations = << >> /\ entities \in FetchEntities
    /\ catConn = "none" /\ resConn = "none"
    /\ pending = NoResult /\ outcome = NoResult
    /\ trace = << >>
    /\ parked = << >>

FetchNext ==
    \/ ResConnect
    \/ Strategy
    \/ Finally

SpecFetch == FetchInit /\ [][FetchNext]_vars

-----------------------------------------------------------------------------
(* Request threads sharing the one QueryProcessor of src/app.py (line 12): *)
(* process_query is called from chat() (line 173) on the thread of each    *)
(* request.  One thread runs at a time; the others are parked where they   *)
(* were preempted, each with the local variables of its call.              *)

\* the local state of a call
Context(p, c, q, i, locs, ents, cat, res, pend, out, tr) ==
    [ pc |-> p, call |-> c, query |-> q, intent |-> i, locations |-> locs,
      entities |-> ents, catConn |-> cat, resConn |-> res, pending |-> pend,
      outcome |-> out, trace |-> tr ]

\* the call of the running thread
Running ==
    Context(pc, call, query, intent, locations, entities, catConn, resConn,
            pending, outcome, trace)

\* a thread that is in no call
IdleContext ==
    Context("idle", "none", << >>, "none", << >>, EmptyDict, "none", "none",
            NoResult, NoResult, << >>)

\* a switch that leaves `locations` where it is, as if _extract_locations
\* kept its list in an attribute of the processor
Switch_sharing_locations(k) ==
    /\ k \in DOMAIN parked
    /\ parked' = [ parked EXCEPT ![k] = Running ]
    /\ pc' = parked[k].pc /\ call' = parked[k].call
    /\ query' = parked[k].query /\ intent' = parked[k].intent
    /\ locations' = locations /\ entities' = parked[k].entities
    /\ catConn' = parked[k].catConn /\ resConn' = parked[k].resConn
    /\ pending' = parked[k].pending /\ outcome' = parked[k].outcome
    /\ trace' = parked[k].trace
    /\ UNCHANGED << store, storeUp, hashSeed >>

\* the interpreter preempts the running thread and resumes the k-th parked
\* one: the locals of one call are saved, those of the other restored
Switch(k) ==
    /\ k \in DOMAIN parked
    /\ parked' = [ parked EXCEPT ![k] = Running ]
    /\ pc' = parked[k].pc /\ call' = parked[k].call
    /\ query' = parked[k].query /\ intent' = parked[k].intent
    /\ locations' = parked[k].locations /\ entities' = parked[k].entities
    /\ catConn' = parked[k].catConn /\ resConn' = parked[k].resConn
    /\ pending' = parked[k].pending /\ outcome' = parked[k].outcome
    /\ trace' = parked[k].trace
    /\ UNCHANGED << store, storeUp, hashSeed >>

\* the databases of the threaded runs: complete, without the blocks table,
\* and without an assessment
ThreadStores ==
    { Database(TableNames, MaxAssessments),
      Database(TableNames \ { "blocks" }, MaxAssessments),
      Database(TableNames, 0) }

\* the messages of the requests
ThreadQueries ==
    { <<"c","o","m","p","a","r","e"," ","p","u","n","j","a","b"," ","w","i","t","h"," ","d","e","l","h","i">>,
      <<"w","a","t","e","r"," ","l","e","v","e","l"," ","i","n"," ","s","o","u","t","h"," ","d","e","l","h","i">> }

ThreadInit ==
    /\ store \in ThreadStores
    /\ storeUp = TRUE
    /\ hashSeed \in 0..MaxHashSeed
    /\ Idle
    /\ parked = [ k \in 1..(MaxThreads - 1) |-> IdleContext ]

ThreadNext ==
    \/ \E q \in ThreadQueries : ProcessQuery(q)
    \/ Classify
    \/ LocConnect
    \/ LocReadStates
    \/ LocReadDistricts
    \/ LocReadBlocks
    \/ LocMatch
    \/ Entities
    \/ ResConnect
    \/ Strategy
    \/ Finally
    \/ Return
    \/ \E k \in DOMAIN parked : Switch(k)

SpecThreads == ThreadInit /\ [][ThreadNext]_vars

-----------------------------------------------------------------------------
(* Properties.                                                             *)

\* classify_intent has returned to its caller
ClassifyReturned ==
    pc = "done" /\ call = "classify_intent" /\ outcome.raised = "none"

\* the intents of the pattern table in the order of their declaration
DeclarationOrder ==
    << "groundwater_status", "critical_areas", "safe_areas", "water_level",
       "historical", "recharge", "extraction", "comparison", "help" >>

\* some pattern declared for the intent matches somewhere in text
Matches(name, text) ==
    \E k \in DOMAIN intent_patterns :
        /\ intent_patterns[k].intent = name
        /\ \E p \in DOMAIN intent_patterns[k].patterns :
               search(intent_patterns[k].patterns[p], text)

\* C1: classify_intent returns the first intent, in declaration order, one
\* of whose patterns matches somewhere in the lower-cased text, and 'general'
\* exactly when no pattern of any intent matches.
C1_FirstMatchingIntent ==
    ClassifyReturned =>
        LET text == lower(query)
            hits == { n \in DOMAIN DeclarationOrder : Matches(DeclarationOrder[n], text) }
        IN  /\ hits = {} <=> outcome.value.intent = "general"
            /\ hits # {} =>
                  outcome.value.intent
                    = DeclarationOrder[CHOOSE n \in hits : \A m \in hits : n <= m]

\* C1 witness: a text that patterns of two intents match was classified as
\* the one declared first.
C1_Witness ==
    /\ ClassifyReturned
    /\ Matches("critical_areas", lower(query))
    /\ Matches("safe_areas", lower(query))
    /\ outcome.value.intent = "critical_areas"

\* C2 as claimed: every text that a critical_areas pattern matches is
\* classified as 'critical_areas'.
C2_CriticalAlwaysWins ==
    ClassifyReturned /\ Matches("critical_areas", lower(query))
        => outcome.value.intent = "critical_areas"

\* C2 as amended: a text that a critical_areas pattern matches is classified
\* as 'critical_areas' unless a groundwater_status pattern matches it too,
\* and then as 'groundwater_status'; never as 'general' or a later intent.
C2_CriticalUnlessStatus ==
    ClassifyReturned /\ Matches("critical_areas", lower(query))
        => outcome.value.intent
             = IF Matches("groundwater_status", lower(query))
               THEN "groundwater_status" ELSE "critical_areas"

\* C2 witness: a text matched by a critical_areas pattern and by a
\* groundwater_status pattern was classified.
C2_Witness ==
    /\ ClassifyReturned
    /\ Matches("critical_areas", lower(query))
    /\ Matches("groundwater_status", lower(query))
    /\ outcome.value.intent = "groundwater_status"

\* s[i:i+4] is '20' followed by two digits
IsYearText(s, i) ==
    /\ i + 4 <= Len(s)
    /\ s[i + 1] = "2" /\ s[i + 2] = "0"
    /\ IsDigit(s[i + 3]) /\ IsDigit(s[i + 4])

\* the integers at the positions of S, from left to right
RECURSIVE YearsAt(_, _)
YearsAt(s, S) ==
    IF S = {} THEN << >>
    ELSE LET i == CHOOSE x \in S : \A y \in S : x <= y
         IN  << IntAt(s, i) >> \o YearsAt(s, S \ { i })

\* the years of the entities classify_intent returned
ReturnedYears == Get(outcome.value.entities, "years")

\* C8 as claimed: the years are all the substrings 20dd of the text, in
\* order, those inside a longer run of digits or letters included.
C8_EveryYearSubstring ==
    ClassifyReturned =>
        LET text == lower(query)
        IN  ReturnedYears = YearsAt(text, { i \in 0..Len(text) : IsYearText(text, i) })

\* C8 as amended: the years are the substrings 20dd of the text that have no
\* letter, digit or underscore right before or right after them, as
\* integers, in the order they occur, duplicates kept.
C8_StandaloneYears ==
    ClassifyReturned =>
        LET text == lower(query)
            standalone(i) ==
                /\ IsYearText(text, i)
                /\ i = 0 \/ ~IsWordChar(text[i])
                /\ i + 4 = Len(text) \/ ~IsWordChar(text[i + 5])
        IN  ReturnedYears = YearsAt(text, { i \in 0..Len(text) : standalone(i) })

\* C8 witness: two standalone years came back in the order of the text,
\* which is not their numeric order.
C8_Witness ==
    /\ ClassifyReturned
    /\ ReturnedYears = << 2024, 2023 >>

\* the categories of the entities classify_intent returned
ReturnedCategories == Range(Get(outcome.value.entities, "categories"))

\* C9: each category is reported exactly when its keyword occurs in the
\* lower-cased text, independently of the others; a text with 'semi' and
\* 'critical' and no other keyword yields exactly Semi-Critical and Critical.
C9_IndependentKeywords ==
    ClassifyReturned =>
        LET text == lower(query)
        IN  /\ "Safe" \in ReturnedCategories <=> Contains(text, Keywords.safe)
            /\ "Critical" \in ReturnedCategories <=> Contains(text, Keywords.critical)
            /\ "Semi-Critical" \in ReturnedCategories <=> Contains(text, Keywords.semi)
            /\ "Over-Exploited" \in ReturnedCategories
                  <=> (Contains(text, Keywords.over) \/ Contains(text, Keywords.exploited))
            /\ ReturnedCategories
                  \subseteq { "Safe", "Critical", "Semi-Critical", "Over-Exploited" }
            /\ ( /\ Contains(text, Keywords.semi) /\ Contains(text, Keywords.critical)
                 /\ ~Contains(text, Keywords.safe)
                 /\ ~Contains(text, Keywords.over) /\ ~Contains(text, Keywords.exploited) )
                  => ReturnedCategories = { "Semi-Critical", "Critical" }

\* C9 witness: a text with 'semi' and 'critical' (written 'Critical') and
\* no other keyword gave the two categories.
C9_Witness ==
    /\ ClassifyReturned
    /\ Contains(lower(query), Keywords.semi) /\ Contains(lower(query), Keywords.critical)
    /\ ~Contains(query, Keywords.critical)
    /\ ReturnedCategories = { "Semi-Critical", "Critical" }

-----------------------------------------------------------------------------
(* Properties of the calls that reach the database.                        *)

\* the events of the trace with the given op, and of those the ones by `by`
EventsOf(op) == SelectSeq(trace, LAMBDA e : e.op = op)
EventsBy(op, by) == SelectSeq(trace, LAMBDA e : e.op = op /\ e.by = by)

\* the fetch methods of lines 207-525
Methods ==
    { "_get_groundwater_status", "_get_critical_areas", "_get_safe_areas",
      "_get_water_levels", "_get_historical_data", "_get_recharge_data",
      "_get_extraction_data", "_get_general_stats", "_get_help_info" }

\* _get_response_data has left its try block
Resolved == pc \in { "finally", "done" } /\ EventsOf("run") # << >>

\* C3: the dispatch is total: every intent string runs exactly one fetch
\* method; 'comparison' and every string outside the enumeration run the
\* method of 'general' and produce what it produces on the same database.
C3_DispatchTotal ==
    Resolved =>
        LET runs == EventsOf("run")
        IN  /\ Len(runs) = 1
            /\ runs[1].by \in Methods
            /\ (intent = "comparison" \/ intent \notin EnumeratedIntents) =>
                  /\ runs[1].by = "_get_general_stats"
                  /\ pending = IF runs[1].ok THEN get_general_stats(store, TRUE)
                                ELSE Raised("OperationalError")

\* C3 witness: 'comparison' and a string outside the enumeration each
\* produced the general_stats record.
C3_Witness ==
    /\ Resolved /\ pc = "done"
    /\ intent \in { "comparison", "greeting" }
    /\ outcome.raised = "none"
    /\ pending.raised = "none" /\ DOMAIN pending.value = { "general_stats" }

\* a connect or a SELECT of the catalog lookup raised
LookupFailed ==
    \E i \in DOMAIN trace :
        /\ ~trace[i].ok
        /\ trace[i].op = "read" \/ (trace[i].op = "connect" /\ trace[i].by = "catalog")

\* _extract_entities has built the entities of the running call
EntitiesBuilt ==
    /\ call \in { "classify_intent", "process_query" }
    /\ pc \in { "resolve_connect", "strategy", "finally", "done" }

\* C4: when the catalog cannot be read at some point of the lookup,
\* _extract_locations returns an empty list and raises nothing: the call
\* goes on, and its entities have no 'locations' key while years and
\* categories are those of the text.
C4_LookupFailureGivesNoLocations ==
    LookupFailed =>
        /\ locations = << >>
        /\ pc \in { "entities", "resolve_connect", "strategy", "finally", "done" }
        /\ EntitiesBuilt =>
              /\ "locations" \notin DOMAIN entities
              /\ Get(entities, "years") = find_years(lower(query))
              /\ Get(entities, "categories") = find_categories(lower(query))
        /\ (pc = "done" /\ call = "classify_intent") =>
              outcome = Returned([ intent |-> intent, entities |-> entities ])
        /\ (pc = "done" /\ call = "process_query") => EventsOf("connect")[Len(EventsOf("connect"))].by = "resolve"

\* C4 witness: the third catalog read failed for a query that names a state
\* and a year; classify_intent returned the year and no location.
C4_Witness ==
    /\ pc = "done" /\ call = "classify_intent"
    /\ query = Q_status_of_delhi
    /\ EventsBy("read", "states") # << >>
    /\ \E i \in DOMAIN trace : trace[i] = Event("read", "blocks", FALSE)
    /\ outcome = Returned([ intent |-> "groundwater_status",
                            entities |-> extract_entities(<< >>, lower(Q_status_of_delhi)) ])
    /\ DOMAIN outcome.value.entities = { "years" }

\* a fetch method raised sqlite3.OperationalError
StrategyStoreError == \E i \in DOMAIN trace : trace[i].op = "run" /\ ~trace[i].ok

\* C5: a store error raised while a fetch method runs is not caught:
\* process_query returns no record, the caller gets the error, and the
\* failed call is made once.
C5_StoreErrorPropagates ==
    (pc = "done" /\ call = "process_query" /\ StrategyStoreError) =>
        /\ outcome = Raised("OperationalError")
        /\ outcome.value = NoValue
        /\ Len(EventsOf("run")) = 1
        /\ Len(EventsBy("connect", "resolve")) = 1

\* C5 witness: process_query ended with the store error of its fetch method.
C5_Witness ==
    /\ pc = "done" /\ call = "process_query" /\ StrategyStoreError
    /\ outcome.raised = "OperationalError"

\* C6: a resolution opens one connection and closes it on every way out of
\* _get_response_data: rows returned, nothing found, exception raised.
C6_ConnectionReleased ==
    /\ pc \in { "strategy", "finally" } => resConn = "open"
    /\ pc \in { "idle", "done" } => resConn # "open"
    /\ Len(EventsBy("connect", "resolve")) <= 1
    /\ (pc = "done" /\ EventsBy("connect", "resolve") = << Event("connect", "resolve", TRUE) >>) =>
          /\ resConn = "closed"
          /\ Len(EventsBy("close", "resolve")) = 1

\* C6 witness: a resolution that raised has ended with its connection closed.
C6_Witness ==
    /\ pc = "done" /\ resConn = "closed"
    /\ pending.raised # "none" /\ outcome = Raised(pending.raised)

\* C7 as claimed: resolving 'help' opens no store connection, and gives the
\* static listing whatever the database holds and whether or not it can be
\* reached.
C7_HelpTouchesNoStore ==
    (intent = "help" /\ pc = "done" /\ call \in { "_get_response_data", "process_query" }) =>
        /\ EventsBy("connect", "resolve") = << >>
        /\ resConn = "none"
        /\ outcome.raised = "none"
        /\ outcome.value = IF call = "process_query"
                            THEN query_result(query, intent, entities, get_help_info.value)
                            ELSE get_help_info.value

\* the entities a returned call carries
ReturnedEntities == outcome.value.entities

\* C10: in the entities classify_intent returns, 'locations', 'years' and
\* 'categories' are present only with a non-empty list, and absent exactly
\* when nothing of the kind was found.
C10_NoEmptyEntityLists ==
    (pc = "done" /\ call \in { "classify_intent", "process_query" } /\ outcome.raised = "none") =>
        /\ DOMAIN ReturnedEntities \subseteq EntityKeys
        /\ \A k \in DOMAIN ReturnedEntities : ReturnedEntities[k] # << >>
        /\ "locations" \in DOMAIN ReturnedEntities <=> locations # << >>
        /\ "years" \in DOMAIN ReturnedEntities <=> find_years(lower(query)) # << >>
        /\ "categories" \in DOMAIN ReturnedEntities <=> find_categories(lower(query)) # << >>

\* C10 witness: a query that names a location and a category and no year
\* came back with the keys 'locations' and 'categories' and no 'years'.
C10_Witness ==
    /\ pc = "done" /\ call = "classify_intent" /\ outcome.raised = "none"
    /\ ~LookupFailed
    /\ find_years(lower(query)) = << >> /\ find_categories(lower(query)) # << >>
    /\ locations # << >>
    /\ DOMAIN ReturnedEntities = { "locations", "categories" }

-----------------------------------------------------------------------------
(* Properties of the fetch methods on the populated database.              *)

\* the fetch method of the intent has returned a record
Fetched(i) ==
    /\ intent = i /\ pc \in { "finally", "done" }
    /\ pending.raised = "none"

\* the assessments of the store with their block, district and state
AssessedBlocks ==
    UNION { UNION { UNION {
        { [ ga |-> g, b |-> b, d |-> d, s |-> s ] :
            s \in { x \in Range(store.states) : x.state_id = d.state_id } } :
          d \in { x \in Range(store.districts) : x.district_id = b.district_id } } :
        b \in { x \in Range(store.blocks) : x.block_id = g.block_id } } :
      g \in Range(store.groundwater_assessment) }

\* the location is a case-insensitive substring of the name
NameContains(name, location) == Contains(lower(name), lower(location))

\* the state name or the district name of the row contains the location
InLocation(row, location) ==
    \/ NameContains(row.s.state_name, location)
    \/ NameContains(row.d.district_name, location)

\* the first location of the entities, or the default
FirstLocation(default) ==
    IF "locations" \in DOMAIN entities THEN entities.locations[1] ELSE default

\* the first year of the entities, or 2024
FirstYear == IF "years" \in DOMAIN entities THEN entities.years[1] ELSE 2024

\* C11: 'groundwater_status' is resolved for the first location (or Delhi)
\* and the first year (or 2024); it returns at most 10 block records, each
\* of an assessment of that year whose state or district name contains the
\* location, case-insensitively.
C11_StatusOfFirstLocationAndYear ==
    Fetched("groundwater_status") =>
        LET data == pending.value
        IN  /\ data.location = FirstLocation(Names.Delhi)
            /\ data.year = FirstYear
            /\ Len(data.blocks) <= 10
            /\ \A i \in DOMAIN data.blocks :
                  \E row \in AssessedBlocks :
                    /\ row.b.block_name = data.blocks[i].block_name
                    /\ row.d.district_name = data.blocks[i].district
                    /\ row.s.state_name = data.blocks[i].state
                    /\ row.ga.category = data.blocks[i].category
                    /\ row.ga.assessment_year = FirstYear
                    /\ InLocation(row, FirstLocation(Names.Delhi))

\* C11 witness: of two locations and two years the first ones were used,
\* and 10 blocks came back of the more than 10 of Delhi assessed in 2024,
\* from a store that also holds blocks of Punjab and assessments of 2022.
C11_Witness ==
    /\ Fetched("groundwater_status") /\ pc = "done"
    /\ entities = [ locations |-> << Names.Delhi, Names.Punjab >>, years |-> << 2024, 2022 >> ]
    /\ Len(pending.value.blocks) = 10
    /\ Cardinality({ row \in AssessedBlocks :
                       row.ga.assessment_year = 2024 /\ InLocation(row, Names.Delhi) }) > 10
    /\ \E row \in AssessedBlocks :
          row.ga.assessment_year = 2022 /\ InLocation(row, Names.Punjab)

\* the assessments of 2024 in one of the categories
AssessedIn2024(categories) ==
    { row \in AssessedBlocks :
        row.ga.assessment_year = 2024 /\ row.ga.category \in categories }

\* the assessment a returned record was made from: the one of its block
\* among the rows (a block is assessed once a year)
RowOf(record, rows) == CHOOSE row \in rows : row.b.block_name = record.block

\* x comes before y in the order of the stages
StageBefore(x, y, descending) ==
    IF descending THEN x.ga.stage_of_extraction > y.ga.stage_of_extraction
    ELSE x.ga.stage_of_extraction < y.ga.stage_of_extraction

\* the records are at most 15, each made from one of the rows, in the order
\* of the stages, and no row left out comes before a returned one
TopFifteen(records, rows, descending) ==
    /\ Len(records) <= 15
    /\ \A i \in DOMAIN records :
          /\ \E row \in rows : row.b.block_name = records[i].block
          /\ records[i].extraction_percentage
                = round_value(RowOf(records[i], rows).ga.stage_of_extraction)
    /\ \A i, j \in DOMAIN records :
          i < j => ~StageBefore(RowOf(records[j], rows), RowOf(records[i], rows), descending)
    /\ \A row \in rows :
          (\A i \in DOMAIN records : records[i].block # row.b.block_name)
             => \A i \in DOMAIN records :
                  ~StageBefore(row, RowOf(records[i], rows), descending)

\* C12: 'safe_areas' returns at most 15 records, each of a Safe assessment
\* of 2024, in non-decreasing order of extraction stage, and no Safe
\* assessment of 2024 left out has a lower stage than a returned one.
C12_LowestSafeStages ==
    Fetched("safe_areas") =>
        TopFifteen(pending.value.safe_areas, AssessedIn2024({ "Safe" }), FALSE)

\* C12 witness: the store holds more than 15 Safe assessments of 2024, in
\* another order than that of their stages, and 15 came back.
C12_Witness ==
    /\ Fetched("safe_areas") /\ pc = "done"
    /\ Len(pending.value.safe_areas) = 15
    /\ Cardinality(AssessedIn2024({ "Safe" })) > 15
    /\ pending.value.safe_areas[1].block # Names.SouthDelhiBlock1

\* C13: 'critical_areas' returns at most 15 records, each of a Critical or
\* Over-Exploited assessment of 2024, in non-increasing order of extraction
\* stage, and no such assessment left out has a higher stage than a
\* returned one.
C13_HighestCriticalStages ==
    Fetched("critical_areas") =>
        /\ TopFifteen(pending.value.critical_areas,
                      AssessedIn2024({ "Critical", "Over-Exploited" }), TRUE)
        /\ \A i \in DOMAIN pending.value.critical_areas :
              pending.value.critical_areas[i].category \in { "Critical", "Over-Exploited" }

\* C13 witness: 15 records came back of more than 15 Critical and
\* Over-Exploited assessments of 2024, both categories among them, from a
\* store that also holds Safe and Semi-Critical assessments of 2024.
C13_Witness ==
    /\ Fetched("critical_areas") /\ pc = "done"
    /\ Len(pending.value.critical_areas) = 15
    /\ Cardinality(AssessedIn2024({ "Critical", "Over-Exploited" })) > 15
    /\ AssessedIn2024({ "Safe" }) # {}
    /\ AssessedIn2024({ "Semi-Critical" }) # {}
    /\ \E i \in 1..15 : pending.value.critical_areas[i].category = "Critical"

\* C14 as claimed: on every store, 'water_level' without locations returns
\* the single record 'average_water_levels' with the national pre-monsoon
\* and post-monsoon averages of 2024, and does not fail.
C14_NationalLevelsNeverFail ==
    ( /\ intent = "water_level" /\ "locations" \notin DOMAIN entities
      /\ pc = "done" /\ call = "_get_response_data"
      /\ EventsBy("connect", "resolve") = << Event("connect", "resolve", TRUE) >> ) =>
        /\ outcome.raised = "none"
        /\ DOMAIN outcome.value = { "average_water_levels" }
        /\ DOMAIN outcome.value.average_water_levels = { "pre_monsoon", "post_monsoon" }

\* the intents resolved for a location
ScopedIntents ==
    { "groundwater_status", "water_level", "historical", "recharge", "extraction" }

\* a location-scoped fetch method has run for a location of the entities
ScopedRun ==
    /\ intent \in ScopedIntents /\ "locations" \in DOMAIN entities
    /\ pc \in { "finally", "done" } /\ EventsOf("run") # << >>

\* the block names of the rows a location-scoped method returned
ReturnedBlocks ==
    LET data == pending.value
    IN  CASE intent = "groundwater_status" ->
               { data.blocks[i].block_name : i \in DOMAIN data.blocks }
          [] intent = "water_level" ->
               { data.water_levels[i].block : i \in DOMAIN data.water_levels }
          [] intent = "recharge" ->
               { data.recharge_data[i].block : i \in DOMAIN data.recharge_data }
          [] intent = "extraction" ->
               { data.extraction_data[i].block : i \in DOMAIN data.extraction_data }

\* the assessments in the location
AssessedInLocation(location) ==
    { row \in AssessedBlocks : InLocation(row, location) }

\* C15: a location-scoped method selects a row only when the location is a
\* case-insensitive substring of its state name or district name; the block
\* name is no filter key, and a location found in block names only gives no
\* row and no error.
C15_BlockNameIsNoFilter ==
    ScopedRun =>
        LET location == entities.locations[1]
            rows == AssessedInLocation(location)
        IN  /\ pending.raised = "none"
            /\ intent # "historical" =>
                  /\ \A name \in ReturnedBlocks : \E row \in rows : row.b.block_name = name
                  /\ rows = {} => ReturnedBlocks = {}
            /\ intent = "historical" =>
                  LET trends == pending.value.historical_trends
                  IN  /\ { trends[i].year : i \in DOMAIN trends }
                            = { row.ga.assessment_year : row \in rows }
                      /\ \A i \in DOMAIN trends :
                            trends[i].blocks_assessed
                              = Cardinality({ row.b.block_id : row \in
                                    { r \in rows : r.ga.assessment_year = trends[i].year } })

\* C15 witness: the location is the name of a block that was assessed in
\* 2024 and is part of no state or district name; the method returned no
\* row.
C15_Witness ==
    /\ ScopedRun /\ pc = "done" /\ intent = "recharge"
    /\ entities.locations[1] = Names.SouthDelhiBlock1
    /\ \E row \in AssessedBlocks :
          /\ row.ga.assessment_year = 2024
          /\ NameContains(row.b.block_name, Names.SouthDelhiBlock1)
    /\ outcome = Returned([ location |-> Names.SouthDelhiBlock1, recharge_data |-> << >> ])

\* the year groups _get_historical_data returned
Trends == pending.value.historical_trends

\* the assessment years among the assessments matching the entities
MatchingYears ==
    IF "locations" \in DOMAIN entities
    THEN { row.ga.assessment_year : row \in AssessedInLocation(entities.locations[1]) }
    ELSE { store.groundwater_assessment[i].assessment_year :
             i \in DOMAIN store.groundwater_assessment }

\* C19: 'historical' returns one record for each assessment year among the
\* matching assessments (all of them without a location, else those of the
\* first location), in strictly ascending year order; the years are not
\* restricted to 2024 and are the same whatever the 'years' entity holds.
C19_OneRecordPerYearAscending ==
    Fetched("historical") =>
        /\ { Trends[i].year : i \in DOMAIN Trends } = MatchingYears
        /\ \A i, j \in DOMAIN Trends : i < j => Trends[i].year < Trends[j].year

\* C19 witness: the entities name the year 2022 alone and the result has the
\* records of 2022, 2023 and 2024 in this order.
C19_Witness ==
    /\ Fetched("historical") /\ pc = "done"
    /\ entities = [ years |-> << 2022 >> ]
    /\ [ i \in DOMAIN Trends |-> Trends[i].year ] = << 2022, 2023, 2024 >>
    /\ \E i \in DOMAIN Trends : Trends[i].blocks_assessed > 1

\* _extract_locations has returned or raised
LookupLeft == pc \in { "entities", "resolve_connect", "strategy", "finally", "done" }

\* C20 as claimed: whichever way _extract_locations is left, also by a
\* catalog read that fails after the connection was opened, its connection
\* is not open afterwards, and none is open when the call has ended.
C20_CatalogConnectionClosed ==
    LookupLeft => catConn # "open"

\* the keys of the returned data that format_response looks up
KeysRead == format_response_reads(intent, pending.value) \cap DOMAIN pending.value

\* C18 as claimed: for every intent the keys of the record the resolver
\* returned are keys format_response looks up for that intent, the records
\* of 'help' and 'general' included.
C18_FormatterReadsResolverKeys ==
    (pc = "done" /\ pending.raised = "none" /\ EventsOf("run") # << >>) =>
        DOMAIN pending.value = KeysRead

-----------------------------------------------------------------------------
(* Properties of repeated and of concurrent calls.                         *)

\* the calls of all threads
Contexts == { Running } \cup Range(parked)

\* a process_query call that has ended, its result not yet taken
Completed(c) == c.pc = "done" /\ c.call = "process_query"

\* C16: two process_query calls with the same text, on the store that no
\* call changes, have identical outcomes (intent, entities with the
\* locations in the same order, data, query), whatever other calls ran in
\* between.
C16_SameQuerySameOutput ==
    \A a, b \in Contexts :
        (Completed(a) /\ Completed(b) /\ a.query = b.query) => a.outcome = b.outcome

\* C16 witness: two calls with the same text have ended, each with two
\* locations in its entities.
C16_Witness ==
    /\ Completed(Running) /\ Completed(parked[1])
    /\ query = parked[1].query
    /\ outcome.raised = "none" /\ parked[1].outcome.raised = "none"
    /\ Len(Get(outcome.value.entities, "locations")) = 2
    /\ Len(Get(parked[1].outcome.value.entities, "locations")) = 2

\* what _extract_locations returns for q when nothing else runs
AloneLocations(q) ==
    IF CanRead(store, storeUp, { "states", "districts", "blocks" })
    THEN deduplicated(matched_locations(q, store), hashSeed)
    ELSE << >>

\* what process_query(q) gives when nothing else runs
AloneOutcome(q) ==
    LET i == classified_intent(q)
        ents == extract_entities(AloneLocations(q), lower(q))
        data == run_strategy(strategy_for(i), store, storeUp, ents)
    IN  IF ~storeUp THEN Raised("OperationalError")
        ELSE IF data.raised # "none" THEN Raised(data.raised)
        ELSE Returned(query_result(q, i, ents, data.value))

\* C17: however the calls of the threads interleave, each call ends with the
\* outcome it has when run alone on the same store, and no step of a call
\* writes the store.
C17_CallsIndependent ==
    /\ [](\A c \in Contexts : Completed(c) => c.outcome = AloneOutcome(c.query))
    /\ [][store' = store]_vars

\* C17 witness: a call has ended that was preempted before its locations
\* were read, while the call of another thread, with another text, is
\* under way with other locations.
C17_Witness ==
    /\ Completed(Running) /\ outcome.raised = "none"
    /\ Len(Get(outcome.value.entities, "locations")) = 2
    /\ parked[1].pc \in { "entities", "resolve_connect", "strategy", "finally" }
    /\ parked[1].query # query
    /\ parked[1].locations # << >>
    /\ parked[1].locations # Get(outcome.value.entities, "locations")

=============================================================================
